---- MODULE Spec2Model ----
(***************************************************************************)
(* A model of the data-analyst service: the chart renderer                 *)
(* (chart_generator.py), the analyst agent (data_analyst.py), the request  *)
(* handler (app.py), the data cleaner with its outlier filter and its      *)
(* prepare_for_ml (data_processor.py), and the file ingestion with its     *)
(* parser registry and image parser (file_processor.py).                   *)
(*                                                                         *)
(* Each component is a small state machine with its own variables and its  *)
(* own specification; the variables of the other components stay idle.     *)
(***************************************************************************)
EXTENDS Integers, Sequences, FiniteSets, TLC

VARIABLES
    \* ---- ChartGenerator.generate_chart (chart_generator.py)
    ch_pc,        \* position inside generate_chart / _fig_to_base64
    ch_config,    \* the chart_config argument
    ch_files,     \* the data_files argument: the names of its files
    ch_kind,      \* the renderer generate_chart dispatched to
    ch_fig,       \* TRUE when the local `fig` holds a figure
    ch_open,      \* figures open in the process-wide pyplot context
    ch_renders,   \* the savefig calls made: sequence of [dpi, size]
    ch_img,       \* len(img_data) of the buffer last read
    ch_exc,       \* the exception in flight, or None
    ch_result,    \* what generate_chart returned
    ch_raised,    \* TRUE when an exception left generate_chart
    \* ---- DataAnalystAgent.analyze (data_analyst.py)
    llm,          \* what the collaborator answers: [tokens, cfg, comps]
    ag_pc,        \* position inside analyze / _perform_computations
    ag_files,     \* the data_files argument: the names of its files
    ag_plan,      \* parsed_result
    ag_comps,     \* the `computations` list being iterated
    ag_i,         \* index of the next item of the list
    ag_results,   \* the `results` dict of _perform_computations
    ag_comp_type, \* the local comp_type: Unbound until first assigned
    ag_log,       \* per item, what its iteration did: "ok", "skip", "error"
    ag_exc,       \* the exception in flight, or None
    ag_result,    \* what analyze returned
    \* ---- analyze_data, the /api/ handler (app.py, minimal_api.py)
    h_req,        \* the request: [questions, files]
    h_pc,         \* position inside app.py's analyze_data
    h_i,          \* index of the next key of request.files
    h_disk,       \* the files present in the upload folder
    h_uploaded,   \* uploaded_files: whether it is bound, and the names it holds
    h_data_files, \* data_files: the names of the ingested files
    h_analysis,   \* analysis_result
    h_log,        \* the calls made: "save", "ingest", "analyze", "chart", "remove"
    h_exc,        \* the exception in flight, or None
    h_response,   \* what the handler returned: [status, body]
    h_raised,     \* TRUE when an exception left the handler
    m_response,   \* what minimal_api.py's analyze_data returned
    \* ---- DataProcessor (data_processor.py)
    cl_pc,        \* position inside clean_dataframe / _convert_data_types
    cl_op,        \* the method that was called
    cl_options,   \* the options argument
    cl_input,     \* the df argument
    cl_df,        \* df_cleaned
    cl_result,    \* the table returned
    \* ---- FileProcessor._process_csv / _process_tsv (file_processor.py)
    csv_pc,       \* position inside the parser
    csv_op,       \* the parser that was called
    csv_file,     \* the lines of the file
    csv_k,        \* the number of the next (encoding, separator) pair
    csv_tried,    \* the pairs read_csv was called with, in order
    csv_result,   \* the table returned
    csv_exc,      \* the exception in flight or raised
    csv_raised,   \* TRUE when the parser raised
    \* ---- DataProcessor.prepare_for_ml on the module-level instance
    ml_encoders,  \* self.encoders of the shared DataProcessor
    ml_scalers,   \* self.scalers of the shared DataProcessor
    ml_pc,        \* per invocation: position inside prepare_for_ml
    ml_df,        \* per invocation: the df argument
    ml_target,    \* per invocation: the target_column argument
    ml_i,         \* per invocation: index of the next categorical column
    ml_df_ml,     \* per invocation: the local df_ml
    ml_result,    \* per invocation: the dict returned
    \* ---- FileProcessor.process_file and the parser it dispatches to
    fp_pc,        \* position inside process_file / the parser
    fp_name,      \* the file path: [stem, ext], the path being stem \o ext
    fp_exists,    \* os.path.exists(filepath)
    fp_content,   \* what the bytes decode to as an image
    fp_calls,     \* the parsers called, in order
    fp_result,    \* what process_file returned
    fp_exc,       \* the exception raised, or None
    fp_raised,    \* TRUE when process_file raised
    \* ---- analyze_data handling two requests at once (app.py)
    temp_uploads, \* the upload folder: per file name, whose bytes it holds
    rq_files,     \* per request: the file names of its parts, as uploaded
    rq_pc,        \* per request: position inside analyze_data
    rq_i,         \* per request: index of the next part
    rq_k,         \* per request: index of the next path of a cleanup loop
    rq_uploaded,  \* per request: the keys of uploaded_files, in order
    rq_data_files,\* per request: data_files, per name whose bytes it parsed
    rq_exc,       \* per request: the exception in flight, or None
    rq_response,  \* per request: the status returned, 0 before
    rq_raised     \* per request: TRUE when an exception left the handler

chartVars == <<ch_pc, ch_config, ch_files, ch_kind, ch_fig, ch_open,
               ch_renders, ch_img, ch_exc, ch_result, ch_raised>>

agentVars == <<llm, ag_pc, ag_files, ag_plan, ag_comps, ag_i, ag_results,
               ag_comp_type, ag_log, ag_exc, ag_result>>

handlerVars == <<h_req, h_pc, h_i, h_disk, h_uploaded, h_data_files,
                 h_analysis, h_log, h_exc, h_response, h_raised, m_response>>

cleanVars == <<cl_pc, cl_op, cl_options, cl_input, cl_df, cl_result>>

csvVars == <<csv_pc, csv_op, csv_file, csv_k, csv_tried, csv_result, csv_exc,
             csv_raised>>

mlVars == <<ml_encoders, ml_scalers, ml_pc, ml_df, ml_target, ml_i, ml_df_ml,
            ml_result>>

fpVars == <<fp_pc, fp_name, fp_exists, fp_content, fp_calls, fp_result, fp_exc,
            fp_raised>>

rqVars == <<temp_uploads, rq_files, rq_pc, rq_i, rq_k, rq_uploaded,
            rq_data_files, rq_exc, rq_response, rq_raised>>

vars == <<chartVars, agentVars, handlerVars, cleanVars, csvVars, mlVars, fpVars,
          rqVars>>

otherVars == <<cleanVars, csvVars, mlVars, fpVars, rqVars>>
nonChartVars == <<agentVars, handlerVars, otherVars>>
nonAgentVars == <<chartVars, handlerVars, otherVars>>
nonCleanVars == <<chartVars, agentVars, handlerVars, csvVars, mlVars, fpVars,
                 rqVars>>
nonCsvVars == <<chartVars, agentVars, handlerVars, cleanVars, mlVars, fpVars,
                 rqVars>>
nonMlVars == <<chartVars, agentVars, handlerVars, cleanVars, csvVars, fpVars,
                 rqVars>>
nonRqVars == <<chartVars, agentVars, handlerVars, cleanVars, csvVars, mlVars,
               fpVars>>
nonFpVars == <<chartVars, agentVars, handlerVars, cleanVars, csvVars, mlVars,
                 rqVars>>

-----------------------------------------------------------------------------
(* Data model: cells, tables, payloads, the FileBundle.                     *)

\* Python's None, and a dict key that is absent.
None == "None"

\* A cell of a table: missing, a number, or a text (a sequence of characters).
NA == [t |-> "na", v |-> 0, s |-> <<>>]
Num(n) == [t |-> "num", v |-> n, s |-> <<>>]
Str(chars) == [t |-> "str", v |-> 0, s |-> chars]

IsNA(cell) == cell.t = "na"

\* A table: ordered column names, a dtype and a cell sequence per column.
Columns(tbl) == {tbl.cols[i] : i \in DOMAIN tbl.cols}

NRows(tbl) == IF tbl.cols = <<>> THEN 0 ELSE Len(tbl.data[tbl.cols[1]])

\* data.select_dtypes(include=[np.number]).columns
NumericColumns(tbl) == {c \in Columns(tbl) : tbl.dtype[c] = "number"}

\* len(data[names].dropna()): the rows with no missing cell in `names`.
DropNaCount(tbl, names) ==
    Cardinality({r \in 1..NRows(tbl) : \A c \in names : ~IsNA(tbl.data[c][r])})

EmptyTable == [cols |-> <<>>, dtype |-> <<>>, data |-> <<>>]

TablePayload(tbl) == [kind |-> "table", table |-> tbl]
TextPayload == [kind |-> "text", table |-> EmptyTable]

\* isinstance(data, pd.DataFrame)
IsDataFrame(payload) == payload.kind = "table"

\* Three tables and a text file, the FileBundle of the chart and agent runs.
TableXYC ==
    [cols |-> <<"x", "y", "c">>,
     dtype |-> [x |-> "number", y |-> "number", c |-> "object"],
     data |-> [x |-> <<Num(1), Num(2), Num(3)>>,
               y |-> <<Num(2), Num(4), Num(6)>>,
               c |-> <<Str(<<"a">>), Str(<<"b">>), Str(<<"a">>)>>]]

TableAllMissing ==
    [cols |-> <<"x", "y">>,
     dtype |-> [x |-> "number", y |-> "number"],
     data |-> [x |-> <<NA, Num(1)>>, y |-> <<Num(1), NA>>]]

TableOneNumeric ==
    [cols |-> <<"x", "c">>,
     dtype |-> [x |-> "number", c |-> "object"],
     data |-> [x |-> <<Num(1), NA>>,
               c |-> <<Str(<<"a">>), Str(<<"b">>)>>]]

\* Two complete rows, and two rows with one missing cell each.
TableWithGaps ==
    [cols |-> <<"x", "y">>,
     dtype |-> [x |-> "number", y |-> "number"],
     data |-> [x |-> <<Num(1), Num(2), NA, Num(4)>>,
               y |-> <<Num(2), Num(4), Num(6), NA>>]]

\* What ingestion makes of each file of the catalogue, and the FileBundle
\* (data_files) of a set of ingested file names.  The state holds a bundle
\* as the set of its file names.
Payload(f) ==
    CASE f = "data.csv" -> TablePayload(TableXYC)
      [] f = "empty.csv" -> TablePayload(TableAllMissing)
      [] f = "one.csv" -> TablePayload(TableOneNumeric)
      [] f = "gaps.csv" -> TablePayload(TableWithGaps)
      [] OTHER -> TextPayload

Bundle(names) == [f \in names |-> Payload(f)]

SampleFiles == {"data.csv", "empty.csv", "one.csv", "gaps.csv", "notes.txt"}

\* dict.get(key, default)
Get(d, key, default) == IF key \in DOMAIN d THEN d[key] ELSE default

\* Python truthiness of a string-or-None value: `not v`.
Falsy(v) == v = None \/ v = ""

-----------------------------------------------------------------------------
(* ChartGenerator (chart_generator.py).                                     *)

max_size_bytes == 100000
dpi == 100
RetryDpi == 50

\* len(base64.b64encode(bytes of length n))
B64Len(n) == 4 * ((n + 2) \div 3)

\* len("data:image/png;base64,")
DataUriPrefixLen == 22

\* f"data:image/png;base64,{base64_str}" for an image of `n` bytes
DataUri(n) ==
    [kind |-> "data_uri", png_bytes |-> n, b64_len |-> B64Len(n),
     length |-> DataUriPrefixLen + B64Len(n)]

NoChart == [kind |-> "none", png_bytes |-> 0, b64_len |-> 0, length |-> 0]

\* The PNG sizes a savefig call is let to produce: below, at and above the
\* ceiling, and around the size whose base64 form reaches the ceiling.
PngSizes ==
    {1, 3 * (max_size_bytes \div 4), 3 * (max_size_bytes \div 4) + 1,
     max_size_bytes, max_size_bytes + 1, 2 * max_size_bytes}

\* A chart_config the collaborator may send: a dict over any subset of the
\* four keys the renderers read, or a value that is no dict at all.
ChartKeys == {"type", "data_source", "x_column", "y_column"}

ChartTypes == {"scatter", "bar", "line", "histogram", "heatmap", "box", "pie"}

ChartValues(key) ==
    CASE key = "type" -> ChartTypes
      [] key = "data_source" ->
            {"data.csv", "empty.csv", "one.csv", "notes.txt", "missing.csv", ""}
      [] key = "x_column" -> {"x", "zz"}
      [] key = "y_column" -> {"y", "zz"}

FullChartDicts ==
    [type : ChartValues("type"), data_source : ChartValues("data_source"),
     x_column : ChartValues("x_column"), y_column : ChartValues("y_column")]

ChartDicts ==
    {[k \in K |-> full[k]] : full \in FullChartDicts, K \in SUBSET ChartKeys}

DictConfig(d) == [isdict |-> TRUE, d |-> d]
NotADict == [isdict |-> FALSE, d |-> [k \in {} |-> ""]]

ChartConfigs == {DictConfig(d) : d \in ChartDicts} \cup {NotADict}

\* The if/elif chain of generate_chart: an unknown kind falls to scatter.
Dispatch(chart_type) ==
    IF chart_type \in {"scatter", "bar", "line", "histogram", "heatmap", "box"}
    THEN chart_type
    ELSE "scatter"

\* config.get('x_column') names a column of data
HasColumn(data, config, key) ==
    /\ ~Falsy(Get(config, key, None))
    /\ Get(config, key, None) \in Columns(data)

\* The checks each _create_* makes before it opens a figure; FALSE is its
\* early `return None`.
ScatterReady(data, config) ==
    /\ HasColumn(data, config, "x_column")
    /\ HasColumn(data, config, "y_column")
    /\ DropNaCount(data, {config["x_column"], config["y_column"]}) # 0

\* groupby(x)[y].mean() keeps one row per non-missing x value.
BarReady(data, config) ==
    /\ HasColumn(data, config, "x_column")
    /\ HasColumn(data, config, "y_column")
    /\ IF data.dtype[config["x_column"]] = "object"
       THEN DropNaCount(data, {config["x_column"]}) # 0
       ELSE DropNaCount(data, {config["x_column"], config["y_column"]}) # 0

LineReady(data, config) ==
    /\ HasColumn(data, config, "x_column")
    /\ HasColumn(data, config, "y_column")
    /\ DropNaCount(data, {config["x_column"], config["y_column"]}) # 0

HistogramReady(data, config) ==
    /\ HasColumn(data, config, "x_column")
    /\ DropNaCount(data, {config["x_column"]}) # 0

HeatmapReady(data, config) == Cardinality(NumericColumns(data)) >= 2

BoxReady(data, config) == HasColumn(data, config, "y_column")

\* What plotting does once the checks passed: it succeeds, or it raises
\* before or after plt.subplots opened the figure; the renderer's own
\* `except Exception` turns either into `return None`.
PlotOutcomes == {"ok", "raise_before_fig", "raise_after_fig"}

\* The classes generate_chart's `except Exception` clause catches.
ExceptionClasses == {"AttributeError", "TypeError", "ValueError"}

Catches(exc) == exc \in ExceptionClasses

ChartSource == Payload(ch_config.d["data_source"]).table

ReturnNoChart ==
    /\ ch_result' = NoChart
    /\ ch_pc' = "done"

\* chart_generator.py 29-44: read the config, find the table, dispatch.
GenerateChart_Enter ==
    /\ ch_pc = "call"
    /\ IF ~ch_config.isdict
       THEN /\ ch_exc' = "AttributeError"
            /\ ch_pc' = "except"
            /\ UNCHANGED <<ch_kind, ch_result>>
       ELSE LET chart_type == Get(ch_config.d, "type", "scatter")
                data_source == Get(ch_config.d, "data_source", None)
            IN  IF Falsy(data_source) \/ data_source \notin DOMAIN Bundle(ch_files)
                THEN ReturnNoChart /\ UNCHANGED <<ch_kind, ch_exc>>
                ELSE IF ~IsDataFrame(Bundle(ch_files)[data_source])
                THEN ReturnNoChart /\ UNCHANGED <<ch_kind, ch_exc>>
                ELSE /\ ch_kind' = Dispatch(chart_type)
                     /\ ch_pc' = "create"
                     /\ UNCHANGED <<ch_result, ch_exc>>
    /\ UNCHANGED <<ch_config, ch_files, ch_fig, ch_open, ch_renders, ch_img,
                   ch_raised>>
    /\ UNCHANGED nonChartVars

\* One _create_* call and generate_chart's `if fig is None: return None`.
Renderer(kind, ready) ==
    /\ ch_pc = "create"
    /\ ch_kind = kind
    /\ IF ~ready
       THEN ReturnNoChart /\ UNCHANGED <<ch_fig, ch_open>>
       ELSE \E outcome \in PlotOutcomes :
              CASE outcome = "ok" ->
                     /\ ch_open' = ch_open + 1
                     /\ ch_fig' = TRUE
                     /\ ch_pc' = "encode"
                     /\ UNCHANGED ch_result
                [] outcome = "raise_after_fig" ->
                     /\ ch_open' = ch_open + 1
                     /\ ReturnNoChart
                     /\ UNCHANGED ch_fig
                [] OTHER ->
                     /\ ReturnNoChart
                     /\ UNCHANGED <<ch_fig, ch_open>>
    /\ UNCHANGED <<ch_config, ch_files, ch_kind, ch_renders, ch_img, ch_exc,
                   ch_raised>>
    /\ UNCHANGED nonChartVars

CreateScatterPlot == Renderer("scatter", ScatterReady(ChartSource, ch_config.d))
CreateBarChart == Renderer("bar", BarReady(ChartSource, ch_config.d))
CreateLinePlot == Renderer("line", LineReady(ChartSource, ch_config.d))
CreateHistogram == Renderer("histogram", HistogramReady(ChartSource, ch_config.d))
CreateHeatmap == Renderer("heatmap", HeatmapReady(ChartSource, ch_config.d))
CreateBoxPlot == Renderer("box", BoxReady(ChartSource, ch_config.d))

\* A retry rule that also re-renders an image of exactly max_size_bytes.
NeedsRetryAtCeiling(size) == size >= max_size_bytes

\* `if len(img_data) > self.max_size_bytes` (chart_generator.py 275)
NeedsRetry(size) == size > max_size_bytes

\* _fig_to_base64, 266-275: the first savefig, at self.dpi.
FigToBase64_Save ==
    /\ ch_pc = "encode"
    /\ \/ \E size \in PngSizes :
            /\ ch_renders' = Append(ch_renders, [dpi |-> dpi, size |-> size])
            /\ ch_img' = size
            /\ ch_pc' = IF NeedsRetry(size) THEN "retry" ELSE "encoded"
            /\ UNCHANGED ch_exc
       \/ /\ ch_exc' = "ValueError"
          /\ ch_pc' = "except"
          /\ UNCHANGED <<ch_renders, ch_img>>
    /\ UNCHANGED <<ch_config, ch_files, ch_kind, ch_fig, ch_open, ch_result,
                   ch_raised>>
    /\ UNCHANGED nonChartVars

\* _fig_to_base64, 276-282: the one re-render at dpi=50.
FigToBase64_Retry ==
    /\ ch_pc = "retry"
    /\ \/ \E size \in PngSizes :
            /\ ch_renders' = Append(ch_renders, [dpi |-> RetryDpi, size |-> size])
            /\ ch_img' = size
            /\ ch_pc' = "encoded"
            /\ UNCHANGED ch_exc
       \/ /\ ch_exc' = "ValueError"
          /\ ch_pc' = "except"
          /\ UNCHANGED <<ch_renders, ch_img>>
    /\ UNCHANGED <<ch_config, ch_files, ch_kind, ch_fig, ch_open, ch_result,
                   ch_raised>>
    /\ UNCHANGED nonChartVars

\* _fig_to_base64, 284-287: encode what is in the buffer and return it.
FigToBase64_Return ==
    /\ ch_pc = "encoded"
    /\ ch_result' = DataUri(ch_img)
    /\ ch_pc' = "close"
    /\ UNCHANGED <<ch_config, ch_files, ch_kind, ch_fig, ch_open, ch_renders,
                   ch_img, ch_exc, ch_raised>>
    /\ UNCHANGED nonChartVars

\* generate_chart, 62-64: plt.close(fig); return base64_image.
GenerateChart_Close ==
    /\ ch_pc = "close"
    /\ ch_open' = ch_open - 1
    /\ ch_fig' = FALSE
    /\ ch_pc' = "done"
    /\ UNCHANGED <<ch_config, ch_files, ch_kind, ch_renders, ch_img, ch_exc,
                   ch_result, ch_raised>>
    /\ UNCHANGED nonChartVars

\* generate_chart, 66-68: `except Exception`: print, return None.
GenerateChart_Except ==
    /\ ch_pc = "except"
    /\ IF Catches(ch_exc)
       THEN /\ ch_result' = NoChart
            /\ ch_exc' = None
            /\ UNCHANGED ch_raised
       ELSE /\ ch_raised' = TRUE
            /\ UNCHANGED <<ch_result, ch_exc>>
    /\ ch_pc' = "done"
    /\ UNCHANGED <<ch_config, ch_files, ch_kind, ch_fig, ch_open, ch_renders,
                   ch_img>>
    /\ UNCHANGED nonChartVars

ChartNext ==
    \/ GenerateChart_Enter
    \/ CreateScatterPlot
    \/ CreateBarChart
    \/ CreateLinePlot
    \/ CreateHistogram
    \/ CreateHeatmap
    \/ CreateBoxPlot
    \/ FigToBase64_Save
    \/ FigToBase64_Retry
    \/ FigToBase64_Return
    \/ GenerateChart_Close
    \/ GenerateChart_Except

\* generate_chart is entered with the given arguments and no figure open.
ChartCall(config, files) ==
    /\ ch_pc = "call"
    /\ ch_config = config
    /\ ch_files = files
    /\ ch_kind = None
    /\ ch_fig = FALSE
    /\ ch_open = 0
    /\ ch_renders = <<>>
    /\ ch_img = 0
    /\ ch_exc = None
    /\ ch_result = NoChart
    /\ ch_raised = FALSE

-----------------------------------------------------------------------------
(* DataAnalystAgent (data_analyst.py).                                      *)

(* The collaborator's response text is a sequence of tokens: the braces,   *)
(* the comma, "w" (any prose without braces), and the members of the plan, *)
(* each standing for one well-formed `"key": value` pair.  The two members *)
(* whose values are nested, chart_config and computations, carry the       *)
(* response's cfg and comps.                                               *)
MemberTokens ==
    {"answers", "insights", "success", "viz_true", "viz_false", "comp_true",
     "comp_false", "chart_config", "computations"}

Response(tokens, cfg, comps) == [tokens |-> tokens, cfg |-> cfg, comps |-> comps]

EmptyDict == [k \in {} |-> None]

\* One item of the computations list: a dict, or any other JSON value.
DictItem(d) == [isdict |-> TRUE, d |-> d]
NonDictItem == [isdict |-> FALSE, d |-> EmptyDict]

\* The text of a token holds a "{" (and, nested values being closed, a "}").
HoldsOpenBrace(resp, i) ==
    LET tok == resp.tokens[i]
    IN  \/ tok = "{"
        \/ tok = "chart_config" /\ resp.cfg.isdict
        \/ tok = "computations" /\ \E j \in DOMAIN resp.comps : resp.comps[j].isdict

HoldsCloseBrace(resp, i) ==
    LET tok == resp.tokens[i]
    IN  \/ tok = "}"
        \/ tok = "chart_config" /\ resp.cfg.isdict
        \/ tok = "computations" /\ \E j \in DOMAIN resp.comps : resp.comps[j].isdict

Min(S) == CHOOSE m \in S : \A n \in S : m <= n
Max(S) == CHOOSE m \in S : \A n \in S : m >= n

\* re.search(r'\{.*\}', response_text, re.DOTALL): greedy, from the first
\* "{" to the last "}" after it.  <<first, last>>, or <<0, 0>> for no match.
RegexSearch(resp) ==
    LET opens == {i \in DOMAIN resp.tokens : HoldsOpenBrace(resp, i)}
    IN  IF opens = {} THEN <<0, 0>>
        ELSE LET first == Min(opens)
                 closes == {i \in DOMAIN resp.tokens :
                              /\ HoldsCloseBrace(resp, i)
                              /\ \/ i > first
                                 \/ i = first /\ resp.tokens[i] # "{"}
             IN  IF closes = {} THEN <<0, 0>> ELSE <<first, Max(closes)>>

MemberKey(tok) ==
    CASE tok \in {"viz_true", "viz_false"} -> "needs_visualization"
      [] tok \in {"comp_true", "comp_false"} -> "requires_computation"
      [] OTHER -> tok

\* The members between the braces: empty, or members separated by commas.
IsMemberList(inner) ==
    \/ inner = <<>>
    \/ /\ Len(inner) % 2 = 1
       /\ \A i \in DOMAIN inner :
            IF i % 2 = 1 THEN inner[i] \in MemberTokens ELSE inner[i] = ","

\* The dict json.loads builds from a member list; a repeated key keeps its
\* last value.
LastOf(inner, key) ==
    inner[Max({i \in DOMAIN inner : inner[i] \in MemberTokens /\ MemberKey(inner[i]) = key})]

MembersDict(resp, inner) ==
    LET keys == {MemberKey(inner[i]) : i \in {j \in DOMAIN inner : inner[j] \in MemberTokens}}
    IN  [k \in keys |->
            CASE k = "answers" -> << <<"a1">> >>
              [] k = "insights" -> <<"i1">>
              [] k = "success" -> TRUE
              [] k = "needs_visualization" -> LastOf(inner, k) = "viz_true"
              [] k = "requires_computation" -> LastOf(inner, k) = "comp_true"
              [] k = "chart_config" -> resp.cfg
              [] OTHER -> resp.comps]

Loaded(d) == [ok |-> TRUE, d |-> d]
JSONDecodeError == [ok |-> FALSE, d |-> EmptyDict]

DictItems(resp) == {j \in DOMAIN resp.comps : resp.comps[j].isdict}

\* json.loads(json_str) of the span first..last.  A span that starts or ends
\* inside a nested value is a document only when it is that value alone.
JsonLoads(resp, first, last) ==
    LET toks == resp.tokens
    IN  IF toks[first] = "{" /\ toks[last] = "}"
        THEN IF IsMemberList(SubSeq(toks, first + 1, last - 1))
             THEN Loaded(MembersDict(resp, SubSeq(toks, first + 1, last - 1)))
             ELSE JSONDecodeError
        ELSE IF first = last /\ toks[first] = "chart_config"
        THEN Loaded(resp.cfg.d)
        ELSE IF first = last /\ Cardinality(DictItems(resp)) = 1
        THEN Loaded(resp.comps[CHOOSE j \in DictItems(resp) : TRUE].d)
        ELSE JSONDecodeError

\* The structured response built from the raw text (data_analyst.py 154-160,
\* 163-169).
FallbackPlan(resp) ==
    [answers |-> <<resp.tokens>>,
     insights |-> resp.tokens,
     needs_visualization |-> FALSE,
     requires_computation |-> FALSE,
     success |-> TRUE]

\* A parser without the `except json.JSONDecodeError` fallback: a span that
\* does not decode yields an empty plan.
ParseWithoutDecodeFallback(resp) ==
    LET json_match == RegexSearch(resp)
    IN  IF json_match # <<0, 0>>
        THEN JsonLoads(resp, json_match[1], json_match[2]).d
        ELSE FallbackPlan(resp)

\* _parse_analysis_response (data_analyst.py 144-169)
ParseAnalysisResponse(resp) ==
    LET json_match == RegexSearch(resp)
    IN  IF json_match # <<0, 0>>
        THEN LET loaded == JsonLoads(resp, json_match[1], json_match[2])
             IN  IF loaded.ok THEN loaded.d ELSE FallbackPlan(resp)
        ELSE FallbackPlan(resp)

\* parsed_result.get(flag, False), read as a condition
Flag(plan, key) == key \in DOMAIN plan /\ plan[key] = TRUE

Unbound == "<unbound>"

\* The values _perform_computations stores.
CorrValue(source, cols) ==
    [kind |-> "correlation", source |-> source, cols |-> cols, msg |-> ""]
RegValue(source, cols) ==
    [kind |-> "regression", source |-> source, cols |-> cols, msg |-> ""]
ErrorValue(msg) ==
    [kind |-> "error", source |-> "", cols |-> <<>>, msg |-> msg]

Stored(key, value) == [tag |-> "ok", key |-> key, value |-> value]
Skipped == [tag |-> "skip", key |-> "", value |-> ErrorValue("")]
Raised(msg) == [tag |-> "raise", key |-> "", value |-> ErrorValue(msg)]

\* data[columns[0]] and data[columns[1]] on the payload of the data source
ColumnLookup(data, columns) ==
    IF ~IsDataFrame(data) THEN "TypeError"
    ELSE IF columns[1] \notin Columns(data.table) THEN "KeyError: " \o columns[1]
    ELSE IF columns[2] \notin Columns(data.table) THEN "KeyError: " \o columns[2]
    ELSE "found"

HasMissing(tbl, c) == \E r \in 1..NRows(tbl) : IsNA(tbl.data[c][r])

\* data[columns[0]].corr(data[columns[1]])  (data_analyst.py 186-188)
Correlation(source, data, columns) ==
    IF ColumnLookup(data, columns) # "found" THEN Raised(ColumnLookup(data, columns))
    ELSE IF \E c \in {columns[1], columns[2]} : data.table.dtype[c] # "number"
    THEN Raised("ValueError: could not convert string to float")
    ELSE Stored("correlation_" \o columns[1] \o "_" \o columns[2],
                CorrValue(source, columns))

\* LinearRegression().fit(X, y)  (data_analyst.py 190-199)
Regression(source, data, columns) ==
    IF ColumnLookup(data, columns) # "found" THEN Raised(ColumnLookup(data, columns))
    ELSE IF \E c \in {columns[1], columns[2]} : data.table.dtype[c] # "number"
    THEN Raised("ValueError: could not convert string to float")
    ELSE IF \E c \in {columns[1], columns[2]} : HasMissing(data.table, c)
    THEN Raised("ValueError: Input contains NaN")
    ELSE Stored("regression_" \o columns[1] \o "_" \o columns[2],
                RegValue(source, columns))

\* The body of the try block for one dict item (data_analyst.py 177-199).
TryItem(comp, files) ==
    LET comp_type == Get(comp, "type", None)
        data_source == Get(comp, "data_source", None)
        columns == Get(comp, "columns", <<>>)
    IN  IF data_source \notin DOMAIN files THEN Skipped
        ELSE IF comp_type = "correlation" /\ Len(columns) >= 2
        THEN Correlation(data_source, files[data_source], columns)
        ELSE IF comp_type = "regression" /\ Len(columns) >= 2
        THEN Regression(data_source, files[data_source], columns)
        ELSE Skipped

\* comp_type after the try block ran on an item: rebound by a dict item,
\* left as it was when comp.get itself raised.
BoundType(item, before) ==
    IF item.isdict THEN Get(item.d, "type", None) ELSE before

ItemOutcome(item, files) ==
    IF item.isdict THEN TryItem(item.d, files) ELSE Raised("AttributeError")

\* f'computation_error_{comp_type}'  (data_analyst.py 202)
ErrorKey(comp_type) == "computation_error_" \o comp_type

\* results[key] = value
Put(d, key, value) == [k \in DOMAIN d \cup {key} |-> IF k = key THEN value ELSE d[k]]

\* parsed_result.update(computed_results)
Update(d, other) ==
    [k \in DOMAIN d \cup DOMAIN other |-> IF k \in DOMAIN other THEN other[k] ELSE d[k]]

\* {"error": f"Analysis failed: {str(e)}", "success": False}
ErrorResult(exc) == [error |-> "Analysis failed: " \o exc, success |-> FALSE]

\* analyze, 22-49: summarise, prompt, call the collaborator, parse.
Analyze_Parse ==
    /\ ag_pc = "call"
    /\ \/ /\ ag_plan' = ParseAnalysisResponse(llm)
          /\ ag_pc' = "gate"
          /\ UNCHANGED ag_exc
       \/ /\ ag_exc' = "APIConnectionError"
          /\ ag_pc' = "except"
          /\ UNCHANGED ag_plan
    /\ UNCHANGED <<llm, ag_files, ag_comps, ag_i, ag_results, ag_comp_type,
                   ag_log, ag_result>>
    /\ UNCHANGED nonAgentVars

\* analyze, 52-55: the requires_computation gate and the call.
Analyze_Gate ==
    /\ ag_pc = "gate"
    /\ IF Flag(ag_plan, "requires_computation")
       THEN /\ ag_comps' = Get(ag_plan, "computations", <<>>)
            /\ ag_pc' = "loop"
       ELSE /\ ag_pc' = "return"
            /\ UNCHANGED ag_comps
    /\ UNCHANGED <<llm, ag_files, ag_plan, ag_i, ag_results, ag_comp_type,
                   ag_log, ag_exc, ag_result>>
    /\ UNCHANGED nonAgentVars

\* _perform_computations, 175-202: one iteration of the loop.
PerformComputations_Item ==
    /\ ag_pc = "loop"
    /\ ag_i <= Len(ag_comps)
    /\ LET item == ag_comps[ag_i]
           outcome == ItemOutcome(item, Bundle(ag_files))
           comp_type == BoundType(item, ag_comp_type)
       IN  /\ ag_comp_type' = comp_type
           /\ CASE outcome.tag = "ok" ->
                     /\ ag_results' = Put(ag_results, outcome.key, outcome.value)
                     /\ ag_log' = Append(ag_log, "ok")
                     /\ ag_i' = ag_i + 1
                     /\ UNCHANGED <<ag_pc, ag_exc>>
                [] outcome.tag = "skip" ->
                     /\ ag_log' = Append(ag_log, "skip")
                     /\ ag_i' = ag_i + 1
                     /\ UNCHANGED <<ag_pc, ag_exc, ag_results>>
                [] OTHER ->
                     IF comp_type = Unbound
                     THEN /\ ag_exc' = "UnboundLocalError"
                          /\ ag_pc' = "except"
                          /\ UNCHANGED <<ag_results, ag_log, ag_i>>
                     ELSE /\ ag_results' =
                               Put(ag_results, ErrorKey(comp_type), outcome.value)
                          /\ ag_log' = Append(ag_log, "error")
                          /\ ag_i' = ag_i + 1
                          /\ UNCHANGED <<ag_pc, ag_exc>>
    /\ UNCHANGED <<llm, ag_files, ag_plan, ag_comps, ag_result>>
    /\ UNCHANGED nonAgentVars

\* _perform_computations, 204, and analyze, 57: return results, merge them.
PerformComputations_Return ==
    /\ ag_pc = "loop"
    /\ ag_i > Len(ag_comps)
    /\ ag_plan' = Update(ag_plan, ag_results)
    /\ ag_pc' = "return"
    /\ UNCHANGED <<llm, ag_files, ag_comps, ag_i, ag_results, ag_comp_type,
                   ag_log, ag_exc, ag_result>>
    /\ UNCHANGED nonAgentVars

\* analyze, 59: return parsed_result.
Analyze_Return ==
    /\ ag_pc = "return"
    /\ ag_result' = ag_plan
    /\ ag_pc' = "done"
    /\ UNCHANGED <<llm, ag_files, ag_plan, ag_comps, ag_i, ag_results,
                   ag_comp_type, ag_log, ag_exc>>
    /\ UNCHANGED nonAgentVars

\* analyze, 61-65: `except Exception`: the error-only result.
Analyze_Except ==
    /\ ag_pc = "except"
    /\ ag_result' = ErrorResult(ag_exc)
    /\ ag_pc' = "done"
    /\ UNCHANGED <<llm, ag_files, ag_plan, ag_comps, ag_i, ag_results,
                   ag_comp_type, ag_log, ag_exc>>
    /\ UNCHANGED nonAgentVars

AgentNext ==
    \/ Analyze_Parse
    \/ Analyze_Gate
    \/ PerformComputations_Item
    \/ PerformComputations_Return
    \/ Analyze_Return
    \/ Analyze_Except

\* analyze is entered with the given data_files.
AgentCall(files) ==
    /\ ag_pc = "call"
    /\ ag_files = files
    /\ ag_plan = EmptyDict
    /\ ag_comps = <<>>
    /\ ag_i = 1
    /\ ag_results = EmptyDict
    /\ ag_comp_type = Unbound
    /\ ag_log = <<>>
    /\ ag_exc = None
    /\ ag_result = EmptyDict

AgentIdle ==
    /\ ag_pc = "idle"
    /\ ag_files = SampleFiles
    /\ ag_plan = EmptyDict
    /\ ag_comps = <<>>
    /\ ag_i = 1
    /\ ag_results = EmptyDict
    /\ ag_comp_type = Unbound
    /\ ag_log = <<>>
    /\ ag_exc = None
    /\ ag_result = EmptyDict

\* The responses the agent is run on: every short token sequence, and the
\* plan that asks for each list of computations.
MaxTextLen == 3
MaxComps == 2

TextAlphabet ==
    {"{", "}", ",", "w", "viz_true", "comp_true", "chart_config", "computations"}

Seqs(S, n) == UNION {[1..m -> S] : m \in 0..n}

CompItems ==
    {DictItem(d) : d \in [type : {"correlation", "regression", "statistical_test"},
                          data_source : {"data.csv", "empty.csv", "gaps.csv",
                                         "missing.csv", "notes.txt"},
                          columns : {<<"x", "y">>, <<"x", "zz">>, <<"x">>}]}
    \cup {NonDictItem}

DefaultCfg ==
    DictConfig([type |-> "scatter", data_source |-> "data.csv",
                x_column |-> "x", y_column |-> "y"])

DefaultComps ==
    <<DictItem([type |-> "correlation", data_source |-> "data.csv",
                columns |-> <<"x", "y">>])>>

ComputationTokens ==
    <<"{", "answers", ",", "insights", ",", "comp_true", ",", "computations", "}">>

AgentResponses ==
    {Response(t, DefaultCfg, DefaultComps) : t \in Seqs(TextAlphabet, MaxTextLen)}
    \cup {Response(ComputationTokens, DefaultCfg, l) : l \in Seqs(CompItems, MaxComps)}

NoResponse == Response(<<>>, NotADict, <<>>)

HttpResponse(status, body) == [status |-> status, body |-> body]
NotReturned == HttpResponse(0, EmptyDict)

\* The local uploaded_files of app.py's analyze_data, before and after line 65.
UnboundFiles == [bound |-> FALSE, names |-> {}]
BoundFiles(names) == [bound |-> TRUE, names |-> names]

\* A request: whether the questions.txt part is there and decodes, and the
\* file names of the other parts, in the order of request.files.
Request(questions, files) == [questions |-> questions, files |-> files]

HandlerIdle ==
    /\ h_req = Request("absent", <<>>)
    /\ h_pc = "idle"
    /\ h_i = 1
    /\ h_disk = {}
    /\ h_uploaded = UnboundFiles
    /\ h_data_files = {}
    /\ h_analysis = EmptyDict
    /\ h_log = <<>>
    /\ h_exc = None
    /\ h_response = NotReturned
    /\ h_raised = FALSE
    /\ m_response = NotReturned

\* The options clean_dataframe reads, with the defaults of its .get calls.
\* `method` is the outlier method the caller asks for; in a direct call of
\* _remove_outliers it is the method argument.
Options(missing_strategy, remove_duplicates) ==
    [missing_strategy |-> missing_strategy, remove_duplicates |-> remove_duplicates,
     remove_outliers |-> FALSE, method |-> "iqr"]

OutlierOptions(remove_duplicates, remove_outliers, method) ==
    [missing_strategy |-> "auto", remove_duplicates |-> remove_duplicates,
     remove_outliers |-> remove_outliers, method |-> method]

\* The invocations of prepare_for_ml that may overlap on the shared instance.
Invocations == {1, 2}

\* The dict prepare_for_ml returns (data_processor.py 201-207).
MlResult(data, encoders_, scalers_, feature_columns, target_column) ==
    [data |-> data, encoders |-> encoders_, scalers |-> scalers_,
     feature_columns |-> feature_columns, target_column |-> target_column]

NoMlResult == MlResult(EmptyTable, EmptyDict, EmptyDict, <<>>, None)

MlIdle ==
    /\ ml_encoders = EmptyDict
    /\ ml_scalers = EmptyDict
    /\ ml_pc = [t \in Invocations |-> "idle"]
    /\ ml_df = [t \in Invocations |-> EmptyTable]
    /\ ml_target = [t \in Invocations |-> None]
    /\ ml_i = [t \in Invocations |-> 1]
    /\ ml_df_ml = [t \in Invocations |-> EmptyTable]
    /\ ml_result = [t \in Invocations |-> NoMlResult]

\* The bytes of a file as PIL sees them: whether Image.open decodes them,
\* and the format and size of the image.
ImageBytes(decodes, format, width, height) ==
    [decodes |-> decodes, format |-> format, width |-> width, height |-> height]

NotAnImage == ImageBytes(FALSE, <<>>, 0, 0)

\* What process_file returns: a table, a JSON value, a text, or the
\* image_info dict of _process_image.
Parsed(kind, format, width, height, base64_data) ==
    [kind |-> kind, format |-> format, width |-> width, height |-> height,
     base64_data |-> base64_data]

NotParsed == Parsed(None, <<>>, 0, 0, <<>>)

FpIdle ==
    /\ fp_pc = "idle"
    /\ fp_name = [stem |-> <<>>, ext |-> <<>>]
    /\ fp_exists = FALSE
    /\ fp_content = NotAnImage
    /\ fp_calls = <<>>
    /\ fp_result = NotParsed
    /\ fp_exc = None
    /\ fp_raised = FALSE

\* The requests analyze_data handles at the same time.
Handlers == {1, 2}

\* The file names the upload folder can hold.
SanitizedNames == {"data.csv", "notes.txt"}

\* The upload folder with no file in it: 0 is "no such file".
EmptyFolder == [name \in SanitizedNames |-> 0]

RqIdle ==
    /\ temp_uploads = EmptyFolder
    /\ rq_files = [r \in Handlers |-> <<>>]
    /\ rq_pc = [r \in Handlers |-> "idle"]
    /\ rq_i = [r \in Handlers |-> 1]
    /\ rq_k = [r \in Handlers |-> 1]
    /\ rq_uploaded = [r \in Handlers |-> <<>>]
    /\ rq_data_files = [r \in Handlers |-> EmptyFolder]
    /\ rq_exc = [r \in Handlers |-> None]
    /\ rq_response = [r \in Handlers |-> 0]
    /\ rq_raised = [r \in Handlers |-> FALSE]

CsvIdle ==
    /\ csv_pc = "idle"
    /\ csv_op = None
    /\ csv_file = <<>>
    /\ csv_k = 1
    /\ csv_tried = <<>>
    /\ csv_result = [ok |-> FALSE, exc |-> None, sep |-> "", encoding |-> "",
                     ncols |-> 0, nrows |-> 0]
    /\ csv_exc = None
    /\ csv_raised = FALSE

CleanIdle ==
    /\ cl_pc = "idle"
    /\ cl_op = None
    /\ cl_options = Options("auto", TRUE)
    /\ cl_input = EmptyTable
    /\ cl_df = EmptyTable
    /\ cl_result = EmptyTable

ChartIdle ==
    /\ ch_pc = "idle"
    /\ ch_config = NotADict
    /\ ch_files = SampleFiles
    /\ ch_kind = None
    /\ ch_fig = FALSE
    /\ ch_open = 0
    /\ ch_renders = <<>>
    /\ ch_img = 0
    /\ ch_exc = None
    /\ ch_result = NoChart
    /\ ch_raised = FALSE

AgentInit ==
    /\ llm \in AgentResponses
    /\ AgentCall(SampleFiles)
    /\ ChartIdle
    /\ HandlerIdle
    /\ CleanIdle
    /\ CsvIdle
    /\ MlIdle
    /\ FpIdle
    /\ RqIdle

SpecAgent == AgentInit /\ [][AgentNext]_vars

ChartInit ==
    /\ \E config \in ChartConfigs : ChartCall(config, SampleFiles)
    /\ llm = NoResponse
    /\ AgentIdle
    /\ HandlerIdle
    /\ CleanIdle
    /\ CsvIdle
    /\ MlIdle
    /\ FpIdle
    /\ RqIdle

SpecChart == ChartInit /\ [][ChartNext]_vars

-----------------------------------------------------------------------------
(* The /api/ handlers (app.py, minimal_api.py) and FileProcessor.process_file *)
(* as the handler calls it.                                                  *)

\* os.path.splitext(filepath.lower())[1] for the names of the catalogue
Extension(filename) ==
    CASE filename \in {"data.csv", "empty.csv", "one.csv", "gaps.csv"} -> ".csv"
      [] filename = "notes.txt" -> ".txt"
      [] filename = "report.pdf" -> ".pdf"
      [] OTHER -> ""

\* FileProcessor.__init__: the keys of supported_extensions
supported_extensions ==
    {".csv", ".xlsx", ".xls", ".json", ".txt", ".tsv", ".png", ".jpg", ".jpeg"}

\* FileProcessor.process_file (file_processor.py 26-42): the exception it
\* raises, or None when the parser returned the payload.
ProcessFileError(filename, disk) ==
    IF filename \notin disk THEN "FileNotFoundError"
    ELSE IF Extension(filename) \notin supported_extensions
    THEN "ValueError: Unsupported file type"
    ELSE None

\* A handler that renders a chart for every plan.
AlwaysWantsChart(analysis_result) == TRUE

\* app.py 92: analysis_result.get('needs_visualization', False)
WantsChart(analysis_result) == Flag(analysis_result, "needs_visualization")

\* app.py 95: analysis_result.get('chart_config', {})
ChartConfigOf(analysis_result) ==
    Get(analysis_result, "chart_config", DictConfig(EmptyDict))

\* A handler that lets every request through the questions.txt check.
QuestionsAlwaysThere(request) == FALSE

\* app.py 58: `'questions.txt' not in request.files`
MissingQuestions(request) == request.questions = "absent"

\* app.py 58-66: the questions.txt check, the read, the two empty dicts.
ReadQuestions ==
    /\ h_pc = "start"
    /\ IF MissingQuestions(h_req)
       THEN /\ h_response' =
                  HttpResponse(400, [error |-> "questions.txt file is required"])
            /\ h_pc' = "done"
            /\ UNCHANGED <<h_uploaded, h_exc>>
       ELSE IF h_req.questions = "undecodable"
       THEN /\ h_exc' = "UnicodeDecodeError"
            /\ h_pc' = "except"
            /\ UNCHANGED <<h_uploaded, h_response>>
       ELSE /\ h_uploaded' = BoundFiles({})
            /\ h_pc' = "files"
            /\ UNCHANGED <<h_exc, h_response>>
    /\ UNCHANGED <<h_req, h_i, h_disk, h_data_files, h_analysis, h_log,
                   h_raised, m_response>>
    /\ UNCHANGED <<chartVars, agentVars, otherVars>>

\* app.py 68-79: the next key of request.files; an empty file name is
\* skipped, any other file is saved to the upload folder.
SaveFile ==
    /\ h_pc = "files"
    /\ h_i <= Len(h_req.files)
    /\ IF h_req.files[h_i] = ""
       THEN /\ h_i' = h_i + 1
            /\ UNCHANGED <<h_pc, h_disk, h_log>>
       ELSE /\ h_disk' = h_disk \cup {h_req.files[h_i]}
            /\ h_log' = Append(h_log, "save")
            /\ h_pc' = "process"
            /\ UNCHANGED h_i
    /\ UNCHANGED <<h_req, h_uploaded, h_data_files, h_analysis, h_exc,
                   h_response, h_raised, m_response>>
    /\ UNCHANGED <<chartVars, agentVars, otherVars>>

\* app.py 82-86: ingest the saved file, then record it in uploaded_files.
IngestFile ==
    /\ h_pc = "process"
    /\ h_log' = Append(h_log, "ingest")
    /\ LET filename == h_req.files[h_i]
           error == ProcessFileError(filename, h_disk)
       IN  IF error # None
           THEN /\ h_exc' = error
                /\ h_pc' = "except"
                /\ UNCHANGED <<h_i, h_data_files, h_uploaded>>
           ELSE /\ h_data_files' = h_data_files \cup {filename}
                /\ h_uploaded' = BoundFiles(h_uploaded.names \cup {filename})
                /\ h_i' = h_i + 1
                /\ h_pc' = "files"
                /\ UNCHANGED h_exc
    /\ UNCHANGED <<h_req, h_disk, h_analysis, h_response, h_raised, m_response>>
    /\ UNCHANGED <<chartVars, agentVars, otherVars>>

\* app.py 89: analyst_agent.analyze(questions, data_files) is entered; the
\* collaborator's answer is any response of the given set.
CallAnalyst(responses) ==
    /\ h_pc = "files"
    /\ h_i > Len(h_req.files)
    /\ h_log' = Append(h_log, "analyze")
    /\ h_pc' = "analyzing"
    /\ llm' \in responses
    /\ ag_pc' = "call"
    /\ ag_files' = h_data_files
    /\ UNCHANGED <<ag_plan, ag_comps, ag_i, ag_results, ag_comp_type, ag_log,
                   ag_exc, ag_result>>
    /\ UNCHANGED <<h_req, h_i, h_disk, h_uploaded, h_data_files, h_analysis,
                   h_exc, h_response, h_raised, m_response>>
    /\ UNCHANGED <<chartVars, otherVars>>

\* app.py 89-96: analyze returned; the needs_visualization gate and the
\* call of chart_generator.generate_chart.
CallChartGenerator ==
    /\ h_pc = "analyzing"
    /\ ag_pc = "done"
    /\ h_analysis' = ag_result
    /\ IF WantsChart(ag_result)
       THEN /\ h_log' = Append(h_log, "chart")
            /\ h_pc' = "charting"
            /\ ch_pc' = "call"
            /\ ch_config' = ChartConfigOf(ag_result)
            /\ ch_files' = h_data_files
            /\ UNCHANGED <<ch_kind, ch_fig, ch_open, ch_renders, ch_img,
                           ch_exc, ch_result, ch_raised>>
       ELSE /\ h_pc' = "cleanup"
            /\ UNCHANGED h_log
            /\ UNCHANGED chartVars
    /\ UNCHANGED <<h_req, h_i, h_disk, h_uploaded, h_data_files, h_exc,
                   h_response, h_raised, m_response>>
    /\ UNCHANGED <<agentVars, otherVars>>

\* app.py 93-98: generate_chart returned; `if chart_data:` stores it.
StoreChart ==
    /\ h_pc = "charting"
    /\ ch_pc = "done"
    /\ IF ch_raised
       THEN /\ h_exc' = ch_exc
            /\ h_pc' = "except"
            /\ UNCHANGED h_analysis
       ELSE /\ h_analysis' =
                 IF ch_result # NoChart
                 THEN Put(h_analysis, "chart", ch_result)
                 ELSE h_analysis
            /\ h_pc' = "cleanup"
            /\ UNCHANGED h_exc
    /\ UNCHANGED <<h_req, h_i, h_disk, h_uploaded, h_data_files, h_log,
                   h_response, h_raised, m_response>>
    /\ UNCHANGED <<chartVars, agentVars, otherVars>>

\* `for filepath in uploaded_files.values(): os.remove(filepath)`
RemoveLog(log, names) ==
    log \o [i \in 1..Cardinality(names) |-> "remove"]

\* app.py 100-105: remove the uploaded files, return the result with 200.
CleanupAndReturn ==
    /\ h_pc = "cleanup"
    /\ h_disk' = h_disk \ h_uploaded.names
    /\ h_log' = RemoveLog(h_log, h_uploaded.names \cap h_disk)
    /\ h_response' = HttpResponse(200, h_analysis)
    /\ h_pc' = "done"
    /\ UNCHANGED <<h_req, h_i, h_uploaded, h_data_files, h_analysis, h_exc,
                   h_raised, m_response>>
    /\ UNCHANGED <<chartVars, agentVars, otherVars>>

\* app.py 107-116: `except Exception`: remove the files uploaded_files
\* names, return the error with 500.  uploaded_files is first bound on line
\* 65: an exception raised before it makes the handler itself raise.
HandleException ==
    /\ h_pc = "except"
    /\ IF ~h_uploaded.bound
       THEN /\ h_raised' = TRUE
            /\ h_exc' = "UnboundLocalError"
            /\ UNCHANGED <<h_disk, h_log, h_response>>
       ELSE /\ h_disk' = h_disk \ h_uploaded.names
            /\ h_log' = RemoveLog(h_log, h_uploaded.names \cap h_disk)
            /\ h_response' =
                  HttpResponse(500, [error |-> "Analysis failed: " \o h_exc,
                                     traceback |-> h_exc])
            /\ UNCHANGED <<h_raised, h_exc>>
    /\ h_pc' = "done"
    /\ UNCHANGED <<h_req, h_i, h_uploaded, h_data_files, h_analysis, m_response>>
    /\ UNCHANGED <<chartVars, agentVars, otherVars>>

\* minimal_api.py 24-77: the whole handler of the test server.
Minimal_AnalyzeData ==
    /\ m_response = NotReturned
    /\ m_response' =
         CASE h_req.questions = "absent" ->
                HttpResponse(400, [error |-> "questions.txt file is required"])
           [] h_req.questions = "undecodable" ->
                HttpResponse(500, [error |-> "Analysis failed: UnicodeDecodeError",
                                   success |-> FALSE])
           [] OTHER ->
                HttpResponse(200, [answers |-> << <<"a1">> >>,
                                   insights |-> <<"i1">>,
                                   statistical_summary |-> <<"s1">>,
                                   success |-> TRUE])
    /\ UNCHANGED <<h_req, h_pc, h_i, h_disk, h_uploaded, h_data_files,
                   h_analysis, h_log, h_exc, h_response, h_raised>>
    /\ UNCHANGED <<chartVars, agentVars, otherVars>>

\* The requests the handler is run on: questions.txt present, absent or not
\* UTF-8, and up to MaxFiles other parts with distinct names.
MaxFiles == 2

UploadNames == {"data.csv", "notes.txt", "report.pdf", ""}

Requests ==
    {Request(q, f) : q \in {"present", "absent", "undecodable"},
                     f \in {l \in Seqs(UploadNames, MaxFiles) :
                               \A i, j \in DOMAIN l : i # j => l[i] # l[j]}}

\* What the collaborator answers the handler's call with.
HandlerTokens ==
    { <<"w">>,
      <<"{", "answers", ",">>,
      <<"{", "answers", ",", "viz_true", "}">>,
      <<"{", "answers", ",", "viz_true", ",", "chart_config", "}">>,
      <<"w", "{", "answers", ",", "viz_true", ",", "chart_config", ",",
        "comp_true", ",", "computations", "}", "w">>,
      <<"{", "answers", ",", "chart_config", ",", "computations", "}">>,
      <<"{", "answers", ",", "viz_false", ",", "chart_config", ",",
        "comp_false", ",", "computations", "}">> }

HandlerCfgs ==
    {DictConfig([type |-> t, data_source |-> "data.csv",
                 x_column |-> "x", y_column |-> "y"]) : t \in ChartTypes}
    \cup {DictConfig([type |-> "box", data_source |-> "data.csv",
                      x_column |-> "zz", y_column |-> "y"]),
          DictConfig([type |-> "scatter", data_source |-> "missing.csv",
                      x_column |-> "x", y_column |-> "y"]),
          NotADict}

HandlerComps ==
    {<<>>, DefaultComps, <<NonDictItem>>,
     <<DictItem([type |-> "regression", data_source |-> "data.csv",
                 columns |-> <<"x", "zz">>])>>}

HandlerResponses ==
    {Response(t, c, l) : t \in HandlerTokens, c \in HandlerCfgs, l \in HandlerComps}

HandlerInit ==
    /\ h_req \in Requests
    /\ h_pc = "start"
    /\ h_i = 1
    /\ h_disk = {}
    /\ h_uploaded = UnboundFiles
    /\ h_data_files = {}
    /\ h_analysis = EmptyDict
    /\ h_log = <<>>
    /\ h_exc = None
    /\ h_response = NotReturned
    /\ h_raised = FALSE
    /\ m_response = NotReturned

Init ==
    /\ HandlerInit
    /\ llm = NoResponse
    /\ AgentIdle
    /\ ChartIdle
    /\ CleanIdle
    /\ CsvIdle
    /\ MlIdle
    /\ FpIdle
    /\ RqIdle

Next ==
    \/ ReadQuestions
    \/ SaveFile
    \/ IngestFile
    \/ CallAnalyst(HandlerResponses)
    \/ CallChartGenerator
    \/ StoreChart
    \/ CleanupAndReturn
    \/ HandleException
    \/ Minimal_AnalyzeData
    \/ AgentNext
    \/ ChartNext

Spec == Init /\ [][Next]_vars

-----------------------------------------------------------------------------
(* DataProcessor (data_processor.py): clean_dataframe and the steps it      *)
(* calls, and _convert_data_types called on its own.                        *)

\* The elements of seq whose index is in S, in order.
Keep(seq, S) ==
    LET F[i \in 0..Len(seq)] ==
            IF i = 0 THEN <<>>
            ELSE IF i \in S THEN Append(F[i - 1], seq[i]) ELSE F[i - 1]
    IN  F[Len(seq)]

\* df[mask]: the rows of S.
KeepRows(tbl, S) ==
    [tbl EXCEPT !.data = [c \in DOMAIN tbl.data |-> Keep(tbl.data[c], S)]]

\* df.drop(columns=names)
DropColumns(tbl, names) ==
    LET kept == Columns(tbl) \ names
    IN  [cols |-> Keep(tbl.cols, {i \in DOMAIN tbl.cols : tbl.cols[i] \in kept}),
         dtype |-> [c \in kept |-> tbl.dtype[c]],
         data |-> [c \in kept |-> tbl.data[c]]]

\* df[column].isnull().sum()
NullCount(series) == Cardinality({r \in DOMAIN series : IsNA(series[r])})

\* df.dropna(how='all'): the rows with a non-missing cell.
DropEmptyRows(tbl) ==
    KeepRows(tbl, {r \in 1..NRows(tbl) : \E c \in Columns(tbl) : ~IsNA(tbl.data[c][r])})

\* df.dropna(axis=1, how='all'): the columns with a non-missing cell.
DropEmptyColumns(tbl) ==
    DropColumns(tbl, {c \in Columns(tbl) : \A r \in DOMAIN tbl.data[c] : IsNA(tbl.data[c][r])})

\* The order of Python's str comparison on the characters of the cells.
Ord(ch) ==
    CASE ch = "$" -> 36 [] ch = "%" -> 37 [] ch = "," -> 44 [] ch = "-" -> 45
      [] ch = "/" -> 47 [] ch = "0" -> 48 [] ch = "1" -> 49 [] ch = "2" -> 50
      [] ch = "3" -> 51 [] ch = "4" -> 52 [] ch = "5" -> 53 [] ch = "6" -> 54
      [] ch = "7" -> 55 [] ch = "8" -> 56 [] ch = "9" -> 57 [] ch = "U" -> 85
      [] ch = "k" -> 107 [] ch = "n" -> 110 [] ch = "o" -> 111 [] ch = "w" -> 119
      [] OTHER -> 120

\* a < b for two texts
TextLess(a, b) ==
    \E i \in 1..Len(b) :
        /\ \A j \in 1..(i - 1) : j <= Len(a) /\ a[j] = b[j]
        /\ \/ i = Len(a) + 1
           \/ i <= Len(a) /\ Ord(a[i]) < Ord(b[i])

\* series.mode()[0]: the most frequent non-missing value, the smallest of
\* them on a tie; mode() is empty when every cell is missing.
Occurrences(series, cell) == Cardinality({r \in DOMAIN series : series[r] = cell})

Modes(series) ==
    {series[r] : r \in {q \in DOMAIN series :
        /\ ~IsNA(series[q])
        /\ \A p \in DOMAIN series :
              ~IsNA(series[p]) => Occurrences(series, series[p]) <= Occurrences(series, series[q])}}

FirstMode(series) ==
    CHOOSE m \in Modes(series) : \A o \in Modes(series) : o = m \/ TextLess(m.s, o.s)

\* series.median() of a numeric column: the middle value of the sorted
\* non-missing values, the mean of the two middle values for an even count.
\* The numeric cells of the tables below are even, so the mean is a whole number.
SortedValues(series) ==
    LET present == {r \in DOMAIN series : ~IsNA(series[r])}
        \* the rank of row r among the non-missing rows, ties broken by row
        Rank(r) == Cardinality({q \in present :
                        \/ series[q].v < series[r].v
                        \/ series[q].v = series[r].v /\ q <= r})
    IN  [k \in 1..Cardinality(present) |->
            series[CHOOSE r \in present : Rank(r) = k].v]

Median(series) ==
    LET sorted == SortedValues(series)
        n == Len(sorted)
    IN  IF n % 2 = 1 THEN sorted[(n + 1) \div 2]
        ELSE (sorted[n \div 2] + sorted[n \div 2 + 1]) \div 2

\* series.fillna(value)
FillNa(series, value) ==
    [r \in DOMAIN series |-> IF IsNA(series[r]) THEN value ELSE series[r]]

\* series.fillna(method='ffill'): the last non-missing cell above, if any.
ForwardFill(series) ==
    [r \in DOMAIN series |->
        LET above == {q \in 1..r : ~IsNA(series[q])}
        IN  IF above = {} THEN NA ELSE series[Max(above)]]

\* series.fillna(method='bfill'): the first non-missing cell below, if any.
BackwardFill(series) ==
    [r \in DOMAIN series |->
        LET below == {q \in r..Len(series) : ~IsNA(series[q])}
        IN  IF below = {} THEN NA ELSE series[Min(below)]]

SetColumn(tbl, column, series) == [tbl EXCEPT !.data[column] = series]

\* data_processor.py 55: `if missing_pct > 0.5`, with
\* missing_pct = df_copy[column].isnull().sum() / len(df_copy)
OverHalfMissing(missing, rows) == 2 * missing > rows

\* _handle_missing_values, 50-80: the body of the loop for one column.
HandleColumn(df, column, strategy) ==
    LET series == df.data[column]
    IN  IF NullCount(series) = 0 THEN df
        ELSE CASE strategy = "auto" ->
                    IF OverHalfMissing(NullCount(series), Len(series))
                    THEN DropColumns(df, {column})
                    ELSE IF df.dtype[column] = "object"
                    THEN SetColumn(df, column,
                            FillNa(series, IF Modes(series) # {}
                                           THEN FirstMode(series)
                                           ELSE Str(<<"U", "n", "k", "n", "o", "w", "n">>)))
                    ELSE SetColumn(df, column, FillNa(series, Num(Median(series))))
               [] strategy = "drop" ->
                    KeepRows(df, {r \in DOMAIN series : ~IsNA(series[r])})
               [] strategy = "forward_fill" -> SetColumn(df, column, ForwardFill(series))
               [] strategy = "backward_fill" -> SetColumn(df, column, BackwardFill(series))
               [] OTHER -> df

\* _handle_missing_values (data_processor.py 45-82): the loop over the
\* columns the table had on entry.
RECURSIVE HandleColumns(_, _, _, _)
HandleColumns(df, columns, i, strategy) ==
    IF i > Len(columns) THEN df
    ELSE HandleColumns(HandleColumn(df, columns[i], strategy), columns, i + 1, strategy)

HandleMissingValues(df, strategy) == HandleColumns(df, df.cols, 1, strategy)

IsDigit(ch) == ch \in {"0", "1", "2", "3", "4", "5", "6", "7", "8", "9"}

\* _is_date_column, 117-121: the three patterns; "d" stands for \d.
date_patterns ==
    << <<"d", "d", "d", "d", "-", "d", "d", "-", "d", "d">>,
       <<"d", "d", "/", "d", "d", "/", "d", "d", "d", "d">>,
       <<"d", "d", "-", "d", "d", "-", "d", "d", "d", "d">> >>

\* re.match(pattern, value_str): the pattern matches a prefix of the text.
ReMatch(pattern, chars) ==
    /\ Len(chars) >= Len(pattern)
    /\ \A i \in DOMAIN pattern :
          IF pattern[i] = "d" THEN IsDigit(chars[i]) ELSE chars[i] = pattern[i]

\* str(value) / astype(str): a missing cell reads "nan".
AsStr(cell) == IF IsNA(cell) THEN <<"n", "a", "n">> ELSE cell.s

DateSample == 10

\* An _is_date_column that looks at every value of the column.
IsDateAnywhere(series) ==
    \E r \in DOMAIN series : \E k \in DOMAIN date_patterns :
        ~IsNA(series[r]) /\ ReMatch(date_patterns[k], AsStr(series[r]))

\* _is_date_column (data_processor.py 113-128): one of the first ten
\* non-missing values starts like a date.
IsDateColumn(series) ==
    LET present == Keep(series, {r \in DOMAIN series : ~IsNA(series[r])})
        sample == SubSeq(present, 1, Min({DateSample, Len(present)}))
    IN  \E r \in DOMAIN sample : \E k \in DOMAIN date_patterns :
            ReMatch(date_patterns[k], AsStr(sample[r]))

\* pd.to_datetime(series, errors='coerce'): a text that is a date of one of
\* the patterns is kept as the date, every other cell becomes missing (NaT).
ToDatetime(series) ==
    [r \in DOMAIN series |->
        IF /\ ~IsNA(series[r])
           /\ \E k \in DOMAIN date_patterns :
                 /\ Len(series[r].s) = Len(date_patterns[k])
                 /\ ReMatch(date_patterns[k], series[r].s)
        THEN series[r]
        ELSE NA]

IsNotSymbol(ch) == ch \notin {",", "$", "%"}

\* .str.replace(r'[,$%]', '', regex=True)
StripSymbols(chars) == SelectSeq(chars, IsNotSymbol)

\* The texts pd.to_numeric reads as a number: digits, after an optional
\* sign.  "nan" and the empty text are coerced to missing.
IsNumberText(chars) ==
    LET digits == IF chars # <<>> /\ chars[1] = "-" THEN Tail(chars) ELSE chars
    IN  /\ digits # <<>>
        /\ \A i \in DOMAIN digits : IsDigit(digits[i])

DigitValue(ch) == Ord(ch) - Ord("0")

NumberValue(chars) ==
    LET digits == IF chars[1] = "-" THEN Tail(chars) ELSE chars
        F[i \in 0..Len(digits)] ==
            IF i = 0 THEN 0 ELSE 10 * F[i - 1] + DigitValue(digits[i])
    IN  IF chars[1] = "-" THEN 0 - F[Len(digits)] ELSE F[Len(digits)]

\* pd.to_numeric(cleaned_series, errors='coerce')
ToNumeric(series) ==
    [r \in DOMAIN series |->
        LET text == StripSymbols(AsStr(series[r]))
        IN  IF IsNumberText(text) THEN Num(NumberValue(text)) ELSE NA]

\* data_processor.py 106:
\* `numeric_series.notna().sum() / len(numeric_series) > 0.8`
MostlyNumeric(numeric_series) ==
    /\ Len(numeric_series) > 0
    /\ 5 * (Len(numeric_series) - NullCount(numeric_series)) > 4 * Len(numeric_series)

\* _convert_data_types, 88-109: the body of the loop for one column: its
\* dtype and its cells afterwards.
ConvertColumn(dtype, series) ==
    IF dtype # "object" THEN [dtype |-> dtype, series |-> series]
    ELSE IF IsDateColumn(series)
    THEN [dtype |-> "datetime", series |-> ToDatetime(series)]
    ELSE IF MostlyNumeric(ToNumeric(series))
    THEN [dtype |-> "number", series |-> ToNumeric(series)]
    ELSE [dtype |-> dtype, series |-> series]

\* _convert_data_types (data_processor.py 84-111)
ConvertDataTypes(df) ==
    [cols |-> df.cols,
     dtype |-> [c \in Columns(df) |-> ConvertColumn(df.dtype[c], df.data[c]).dtype],
     data |-> [c \in Columns(df) |-> ConvertColumn(df.dtype[c], df.data[c]).series]]

\* df.drop_duplicates(): a row equal to an earlier row is removed.
DropDuplicates(df) ==
    KeepRows(df, {r \in 1..NRows(df) :
        ~\E q \in 1..(r - 1) : \A c \in Columns(df) : df.data[c][q] = df.data[c][r]})

\* The sum of the non-missing values of the first n cells.
RECURSIVE SumCells(_, _)
SumCells(series, n) ==
    IF n = 0 THEN 0
    ELSE SumCells(series, n - 1) + (IF IsNA(series[n]) THEN 0 ELSE series[n].v)

\* df.select_dtypes(include=[np.number]).columns, in table order
NumericColumnSeq(tbl) == SelectSeq(tbl.cols, LAMBDA c : tbl.dtype[c] = "number")

\* 4 * series.quantile(q4 / 4): pandas interpolates linearly between the
\* order statistics of the non-missing values, at position (n - 1) * q4 / 4.
Quantile4(series, q4) ==
    LET sorted == SortedValues(series)
        h == (Len(sorted) - 1) * q4
        k == h \div 4
        r == h % 4
    IN  IF r = 0 THEN 4 * sorted[k + 1]
        ELSE (4 - r) * sorted[k + 1] + r * sorted[k + 2]

\* 8 * lower_bound and 8 * upper_bound  (data_processor.py 137-141)
LowerBound8(series) ==
    2 * Quantile4(series, 1) - 3 * (Quantile4(series, 3) - Quantile4(series, 1))
UpperBound8(series) ==
    2 * Quantile4(series, 3) + 3 * (Quantile4(series, 3) - Quantile4(series, 1))

\* A filter that drops the values lying on a bound.
StrictlyWithin(v8, lower8, upper8) == lower8 < v8 /\ v8 < upper8

\* (df[column] >= lower_bound) & (df[column] <= upper_bound), times 8
WithinBounds(v8, lower8, upper8) == lower8 <= v8 /\ v8 <= upper8

\* The rows the IQR mask keeps.  A comparison with NaN is False: a missing
\* cell is dropped, and so is every row when the column has no value at all
\* (its quantiles are NaN).
IqrMask(series) ==
    {r \in DOMAIN series :
        /\ ~IsNA(series[r])
        /\ WithinBounds(8 * series[r].v, LowerBound8(series), UpperBound8(series))}

\* The rows with np.abs((v - mean) / std) < 3, std being the sample standard
\* deviation: with n values of sum S and sum of squares SS,
\* (n*v - S)^2 * (n - 1) < 9 * n * (n*SS - S^2).  NaN (a missing cell, one
\* value only, or std = 0) compares False.
ZscoreMask(series) ==
    LET n == Len(series) - NullCount(series)
        S == SumCells(series, Len(series))
        SS == SumCells([r \in DOMAIN series |-> Num(series[r].v * series[r].v)],
                       Len(series))
    IN  {r \in DOMAIN series :
            /\ ~IsNA(series[r])
            /\ (n * series[r].v - S) * (n * series[r].v - S) * (n - 1)
                  < 9 * n * (n * SS - S * S)}

\* One iteration of the loop of _remove_outliers (135-147); a method that is
\* neither 'iqr' nor 'zscore' filters nothing.
FilterColumn(df_copy, column, method) ==
    IF method = "iqr" THEN KeepRows(df_copy, IqrMask(df_copy.data[column]))
    ELSE IF method = "zscore" THEN KeepRows(df_copy, ZscoreMask(df_copy.data[column]))
    ELSE df_copy

RECURSIVE FilterColumns(_, _, _, _)
FilterColumns(df_copy, numeric_columns, i, method) ==
    IF i > Len(numeric_columns) THEN df_copy
    ELSE FilterColumns(FilterColumn(df_copy, numeric_columns[i], method),
                       numeric_columns, i + 1, method)

\* _remove_outliers(df, method)  (data_processor.py 130-149)
RemoveOutliers(df, method) == FilterColumns(df, NumericColumnSeq(df), 1, method)

\* clean_dataframe, 23-26: copy, then drop the empty rows and columns.
CleanDataframe_DropEmpty ==
    /\ cl_pc = "call"
    /\ cl_op = "clean_dataframe"
    /\ cl_df' = DropEmptyColumns(DropEmptyRows(cl_input))
    /\ cl_pc' = "missing"
    /\ UNCHANGED <<cl_op, cl_options, cl_input, cl_result>>
    /\ UNCHANGED nonCleanVars

\* clean_dataframe, 29-30
CleanDataframe_HandleMissing ==
    /\ cl_pc = "missing"
    /\ cl_df' = HandleMissingValues(cl_df, cl_options.missing_strategy)
    /\ cl_pc' = "types"
    /\ UNCHANGED <<cl_op, cl_options, cl_input, cl_result>>
    /\ UNCHANGED nonCleanVars

\* clean_dataframe, 33
CleanDataframe_ConvertTypes ==
    /\ cl_pc = "types"
    /\ cl_df' = ConvertDataTypes(cl_df)
    /\ cl_pc' = "duplicates"
    /\ UNCHANGED <<cl_op, cl_options, cl_input, cl_result>>
    /\ UNCHANGED nonCleanVars

\* clean_dataframe, 36-43: drop the duplicates when asked to, then call
\* self._remove_outliers(df_cleaned), its method left at the default 'iqr',
\* when asked to, and return.
CleanDataframe_Return ==
    /\ cl_pc = "duplicates"
    /\ LET deduplicated == IF cl_options.remove_duplicates
                           THEN DropDuplicates(cl_df) ELSE cl_df
       IN  cl_df' = IF cl_options.remove_outliers
                    THEN RemoveOutliers(deduplicated, "iqr")
                    ELSE deduplicated
    /\ cl_result' = cl_df'
    /\ cl_pc' = "done"
    /\ UNCHANGED <<cl_op, cl_options, cl_input>>
    /\ UNCHANGED nonCleanVars

\* _convert_data_types called on a table of its own.
ConvertDataTypes_Call ==
    /\ cl_pc = "call"
    /\ cl_op = "_convert_data_types"
    /\ cl_df' = ConvertDataTypes(cl_input)
    /\ cl_result' = cl_df'
    /\ cl_pc' = "done"
    /\ UNCHANGED <<cl_op, cl_options, cl_input>>
    /\ UNCHANGED nonCleanVars

CleanNext ==
    \/ CleanDataframe_DropEmpty
    \/ CleanDataframe_HandleMissing
    \/ CleanDataframe_ConvertTypes
    \/ CleanDataframe_Return
    \/ ConvertDataTypes_Call

\* The tables clean_dataframe is run on: a numeric column A and a text
\* column B of up to MaxRows rows; the tables _convert_data_types is run
\* on: one text column of up to MaxColumnLen cells.
MaxRows == 3
MaxColumnLen == 5

NumberCells == {NA, Num(2), Num(4)}
TextCells == {NA, Str(<<"x">>), Str(<<"1">>)}

DateText == <<"2", "0", "2", "4", "-", "0", "1", "-", "0", "5">>

ColumnCells ==
    {NA, Str(<<"7">>), Str(<<"$", "1", ",", "0", "%">>), Str(<<"x">>), Str(DateText)}

CleanTables ==
    {[cols |-> <<"A", "B">>,
      dtype |-> [A |-> "number", B |-> "object"],
      data |-> [A |-> a, B |-> b]] :
        a \in Seqs(NumberCells, MaxRows), b \in Seqs(TextCells, MaxRows)}

\* Columns longer than the sample _is_date_column looks at: a date text
\* before or after ten other values.
Repeated(cell, n) == [i \in 1..n |-> cell]

LongColumns ==
    {Repeated(Str(<<"x">>), 10) \o <<Str(DateText)>>,
     <<NA>> \o Repeated(Str(<<"x">>), 9) \o <<Str(DateText)>>,
     <<Str(DateText)>> \o Repeated(Str(<<"7">>), 10),
     Repeated(Str(<<"7">>), 10) \o <<Str(DateText)>>,
     <<NA>> \o Repeated(Str(<<"7">>), 10) \o <<Str(DateText)>>}

ColumnTables ==
    {[cols |-> <<"B">>, dtype |-> [B |-> "object"], data |-> [B |-> b]] :
        b \in Seqs(ColumnCells, MaxColumnLen) \cup LongColumns}

CleanInit ==
    /\ cl_pc = "call"
    /\ \/ /\ cl_op = "clean_dataframe"
          /\ cl_input \in {t \in CleanTables : Len(t.data["A"]) = Len(t.data["B"])}
          /\ cl_options \in {Options(m, d) :
                m \in {"auto", "drop", "forward_fill", "backward_fill"},
                d \in BOOLEAN}
       \/ /\ cl_op = "_convert_data_types"
          /\ cl_input \in ColumnTables
          /\ cl_options = Options("auto", TRUE)
    /\ cl_df = cl_input
    /\ cl_result = EmptyTable
    /\ llm = NoResponse
    /\ AgentIdle
    /\ ChartIdle
    /\ HandlerIdle
    /\ CsvIdle
    /\ MlIdle
    /\ FpIdle
    /\ RqIdle

SpecClean == CleanInit /\ [][CleanNext]_vars

-----------------------------------------------------------------------------
(* FileProcessor._process_csv and _process_tsv (file_processor.py).         *)
(* A file is a sequence of lines, a line a sequence of bytes.               *)

TAB == "TAB"

\* The bytes the encoding cannot decode: E9 (Latin-1 e-acute) and 81 are
\* not UTF-8 unless a multi-byte sequence holds them, and none of the lines
\* below has one; Windows-1252 leaves 81 undefined; Latin-1 decodes every byte.
Undecodable(encoding) ==
    CASE encoding = "utf-8" -> {"E9", "81"}
      [] encoding = "cp1252" -> {"81"}
      [] OTHER -> {}

\* The number of fields the separator splits the line into.
FieldCount(line, sep) == 1 + Cardinality({i \in DOMAIN line : line[i] = sep})

IsNotBlank(line) == line # <<>>

ParsedTable(sep, encoding, ncols, nrows) ==
    [ok |-> TRUE, exc |-> None, sep |-> sep, encoding |-> encoding,
     ncols |-> ncols, nrows |-> nrows]

ReadError(sep, encoding, exc) ==
    [ok |-> FALSE, exc |-> exc, sep |-> sep, encoding |-> encoding,
     ncols |-> 0, nrows |-> 0]

\* pd.read_csv(filepath, sep=sep, encoding=encoding): blank lines are
\* skipped, the first line is the header and gives the columns, the first
\* data line may hold more fields than the header (the extra ones become
\* the index), a later line with more fields than those two is an error,
\* a shorter line is padded.
ReadCsv(file, sep, encoding) ==
    LET lines == SelectSeq(file, IsNotBlank)
    IN  IF \E i \in DOMAIN lines : \E j \in DOMAIN lines[i] :
              lines[i][j] \in Undecodable(encoding)
        THEN ReadError(sep, encoding, "UnicodeDecodeError")
        ELSE IF lines = <<>>
        THEN ReadError(sep, encoding, "EmptyDataError")
        ELSE LET header == FieldCount(lines[1], sep)
                 expected == IF Len(lines) >= 2
                             THEN Max({header, FieldCount(lines[2], sep)})
                             ELSE header
             IN  IF \E i \in 3..Len(lines) : FieldCount(lines[i], sep) > expected
                 THEN ReadError(sep, encoding, "ParserError")
                 ELSE ParsedTable(sep, encoding, header, Len(lines) - 1)

\* file_processor.py 48-49
separators == <<",", ";", TAB>>
encodings == <<"utf-8", "latin-1", "cp1252">>

\* file_processor.py 51-52: `for encoding in encodings: for sep in
\* separators:`, the k-th pair the two loops reach.
Candidate(k) ==
    [encoding |-> encodings[((k - 1) \div Len(separators)) + 1],
     sep |-> separators[((k - 1) % Len(separators)) + 1]]

CandidateCount == Len(encodings) * Len(separators)

\* An acceptance test that takes a table of one column too.
AcceptsAnyTable(df) == df.ncols >= 1

\* file_processor.py 55: `if df.shape[1] > 1`
Accepts(df) == df.ncols > 1

NoTable == ReadError("", "", None)

\* _process_csv, 51-59: one pass of the inner loop.
ProcessCsv_Try ==
    /\ csv_pc = "loop"
    /\ csv_k <= CandidateCount
    /\ LET df == ReadCsv(csv_file, Candidate(csv_k).sep, Candidate(csv_k).encoding)
       IN  /\ csv_tried' = Append(csv_tried, Candidate(csv_k))
           /\ IF df.ok /\ Accepts(df)
              THEN /\ csv_result' = df
                   /\ csv_pc' = "done"
                   /\ UNCHANGED csv_k
              ELSE /\ csv_k' = csv_k + 1
                   /\ UNCHANGED <<csv_pc, csv_result>>
    /\ UNCHANGED <<csv_op, csv_file, csv_exc, csv_raised>>
    /\ UNCHANGED nonCsvVars

\* _process_csv, 61-62: `return pd.read_csv(filepath)`.
ProcessCsv_Fallback ==
    /\ csv_pc = "loop"
    /\ csv_k > CandidateCount
    /\ LET df == ReadCsv(csv_file, ",", "utf-8")
       IN  IF df.ok
           THEN /\ csv_result' = df
                /\ csv_pc' = "done"
                /\ UNCHANGED csv_exc
           ELSE /\ csv_exc' = df.exc
                /\ csv_pc' = "except"
                /\ UNCHANGED csv_result
    /\ UNCHANGED <<csv_op, csv_file, csv_k, csv_tried, csv_raised>>
    /\ UNCHANGED nonCsvVars

\* _process_tsv, 109-110: `return pd.read_csv(filepath, sep='\t')`.
ProcessTsv_Read ==
    /\ csv_pc = "tsv"
    /\ LET df == ReadCsv(csv_file, TAB, "utf-8")
       IN  IF df.ok
           THEN /\ csv_result' = df
                /\ csv_pc' = "done"
                /\ UNCHANGED csv_exc
           ELSE /\ csv_exc' = df.exc
                /\ csv_pc' = "except"
                /\ UNCHANGED csv_result
    /\ UNCHANGED <<csv_op, csv_file, csv_k, csv_tried, csv_raised>>
    /\ UNCHANGED nonCsvVars

\* _process_csv 64, _process_tsv 112: `except Exception as e: raise
\* ValueError(...)` with the message of e.
ProcessFile_Except ==
    /\ csv_pc = "except"
    /\ csv_raised' = TRUE
    /\ csv_exc' = "ValueError: " \o csv_exc
    /\ csv_pc' = "done"
    /\ UNCHANGED <<csv_op, csv_file, csv_k, csv_tried, csv_result>>
    /\ UNCHANGED nonCsvVars

CsvNext ==
    \/ ProcessCsv_Try
    \/ ProcessCsv_Fallback
    \/ ProcessTsv_Read
    \/ ProcessFile_Except

\* The files the two parsers are run on: up to MaxLines lines, each one of
\* the lines below.
MaxLines == 3

FileLines ==
    { <<>>,
      <<"a">>,
      <<"E9">>,
      <<"a", ",", "a">>,
      <<"a", ";", "a">>,
      <<"a", TAB, "a">>,
      <<"E9", ";", "a">>,
      <<"E9", ",", "a">>,
      <<"81", ";", "a">>,
      <<"a", ",", "a", ";", "a">>,
      <<"a", ";", "a", ";", "a">> }

CsvInit ==
    /\ csv_file \in Seqs(FileLines, MaxLines)
    /\ \/ csv_op = "_process_csv" /\ csv_pc = "loop"
       \/ csv_op = "_process_tsv" /\ csv_pc = "tsv"
    /\ csv_k = 1
    /\ csv_tried = <<>>
    /\ csv_result = NoTable
    /\ csv_exc = None
    /\ csv_raised = FALSE
    /\ llm = NoResponse
    /\ AgentIdle
    /\ ChartIdle
    /\ HandlerIdle
    /\ CleanIdle
    /\ MlIdle
    /\ FpIdle
    /\ RqIdle

SpecCsv == CsvInit /\ [][CsvNext]_vars

-----------------------------------------------------------------------------
(* Claims about the /api/ handlers, checked under Spec.                     *)

\* The response is the JSON object whose only key is "error", with the status.
IsErrorResponse(response, status) ==
    /\ response.status = status
    /\ DOMAIN response.body = {"error"}

\* C1: a request without a questions.txt part is answered 400 with a JSON
\* object holding an "error" key, by app.py and by minimal_api.py, and no
\* upload is saved, no file ingested, and neither the analyst nor the chart
\* renderer is called, before or after the answer.
C1_MissingQuestionsIs400 ==
    h_req.questions = "absent" =>
        /\ h_log = <<>>
        /\ h_disk = {}
        /\ ag_pc = "idle"
        /\ ch_pc = "idle"
        /\ ~h_raised
        /\ h_pc \in {"start", "done"}
        /\ h_pc = "done" => IsErrorResponse(h_response, 400)
        /\ m_response # NotReturned => IsErrorResponse(m_response, 400)

\* C1 witness: a request with two uploads and no questions.txt was answered
\* 400 by both handlers.
C1_Witness ==
    /\ h_req.questions = "absent"
    /\ Len(h_req.files) = MaxFiles
    /\ h_pc = "done"
    /\ IsErrorResponse(h_response, 400)
    /\ IsErrorResponse(m_response, 400)

-----------------------------------------------------------------------------
(* Claims about the analyst agent, checked under SpecAgent.                 *)

\* The whole text is one JSON document: at token level, exactly one object.
IsJsonDocument(resp) ==
    /\ Len(resp.tokens) >= 2
    /\ resp.tokens[1] = "{"
    /\ resp.tokens[Len(resp.tokens)] = "}"
    /\ IsMemberList(SubSeq(resp.tokens, 2, Len(resp.tokens) - 1))

\* The span from the first "{" to the last "}" exists and is a JSON document.
SpanIsJson(resp) ==
    /\ RegexSearch(resp) # <<0, 0>>
    /\ JsonLoads(resp, RegexSearch(resp)[1], RegexSearch(resp)[2]).ok

AgentParsed == ag_pc \in {"gate", "loop", "return"} \/ (ag_pc = "done" /\ ag_exc = None)

\* The plan is the raw text as sole answer and as insight, flags off.
IsRawTextPlan(plan, resp) ==
    /\ DOMAIN plan = {"answers", "insights", "needs_visualization",
                      "requires_computation", "success"}
    /\ plan["answers"] = <<resp.tokens>>
    /\ plan["insights"] = resp.tokens
    /\ plan["success"] = TRUE
    /\ plan["needs_visualization"] = FALSE
    /\ plan["requires_computation"] = FALSE

\* C2 as stated: every response text that is not JSON is answered by the
\* raw-text plan (sole answer and insight the text, success, both flags
\* off), so no chart and no computation follows.
C2_NotJsonFallsBack ==
    (AgentParsed /\ ~IsJsonDocument(llm)) =>
        /\ IsRawTextPlan(ag_plan, llm)
        /\ ag_pc # "loop"

\* C2 amended: every response text in which the span from the first "{" to
\* the last "}" is missing or is not a JSON document is answered by the
\* raw-text plan; no computation runs and the returned result asks for no
\* chart.
C2_NoJsonSpanFallsBack ==
    (AgentParsed /\ ~SpanIsJson(llm)) =>
        /\ IsRawTextPlan(ag_plan, llm)
        /\ ag_pc # "loop"
        /\ ag_log = <<>>
        /\ ag_results = EmptyDict
        /\ ag_pc = "done" =>
              /\ IsRawTextPlan(ag_result, llm)
              /\ ~WantsChart(ag_result)

\* C2 witness: a text with braces around prose was answered by the raw text.
C2_Witness ==
    /\ ag_pc = "done"
    /\ RegexSearch(llm) # <<0, 0>>
    /\ ~SpanIsJson(llm)
    /\ "answers" \in DOMAIN ag_result
    /\ ag_result["answers"] = <<llm.tokens>>

\* The plan asked for computations and the collaborator call itself worked.
ComputationsRan ==
    /\ ag_pc = "done"
    /\ Flag(ag_plan, "requires_computation")
    /\ ag_exc # "APIConnectionError"

\* C3: whatever the items of the computation list are, a failing item does
\* not abort the request: every item is iterated, every result a successful
\* item stored is in the returned result, and the result is not error-only.
C3_ItemFailureNeverAborts ==
    ComputationsRan =>
        /\ "error" \notin DOMAIN ag_result
        /\ Len(ag_log) = Len(ag_comps)
        /\ \A i \in DOMAIN ag_comps :
              ItemOutcome(ag_comps[i], Bundle(ag_files)).tag = "ok" =>
                  ItemOutcome(ag_comps[i], Bundle(ag_files)).key \in DOMAIN ag_result

\* The item names a data source that is no table of the bundle, or, in its
\* column list, a column the table does not have.
BadReference(item, files) ==
    /\ item.isdict
    /\ LET data_source == Get(item.d, "data_source", None)
           columns == Get(item.d, "columns", <<>>)
       IN  \/ data_source \notin DOMAIN files
           \/ ~IsDataFrame(files[data_source])
           \/ \E i \in DOMAIN columns :
                 columns[i] \notin Columns(files[data_source].table)

ErrorEntries(results) == {k \in DOMAIN results : results[k].kind = "error"}

\* C4: after _perform_computations, on a list of dict items that each name
\* a table of the bundle or a data source the bundle does not have, and
\* whose only failing items are those with a bad reference, the results hold
\* as many error entries as the list has items with a bad reference.
C4_BadReferencesCounted ==
    (/\ ag_pc \in {"return", "done"}
     /\ Flag(ag_plan, "requires_computation")
     /\ Len(ag_log) = Len(ag_comps)
     /\ \A i \in DOMAIN ag_comps :
           /\ ag_comps[i].isdict
           /\ LET data_source == Get(ag_comps[i].d, "data_source", None)
              IN  data_source \in ag_files => IsDataFrame(Payload(data_source))
           /\ \/ BadReference(ag_comps[i], Bundle(ag_files))
              \/ ItemOutcome(ag_comps[i], Bundle(ag_files)).tag # "raise")
    => Cardinality(ErrorEntries(ag_results))
         = Cardinality({i \in DOMAIN ag_comps : BadReference(ag_comps[i], Bundle(ag_files))})

-----------------------------------------------------------------------------
(* Claims about the chart renderer, checked under SpecChart.                *)

\* The column keys the renderer of a chart kind reads from the config.
ColumnKeysRead(kind) ==
    CASE kind \in {"scatter", "bar", "line", "box"} -> {"x_column", "y_column"}
      [] kind = "histogram" -> {"x_column"}
      [] OTHER -> {}

\* The config is a dict that names a data source that is absent or no
\* table, or gives, under a column key its chart kind reads, a column the
\* table does not have.
BadChartReference(config, files) ==
    /\ config.isdict
    /\ LET data_source == Get(config.d, "data_source", None)
           kind == Dispatch(Get(config.d, "type", "scatter"))
       IN  \/ Falsy(data_source)
           \/ data_source \notin DOMAIN files
           \/ ~IsDataFrame(files[data_source])
           \/ \E key \in ColumnKeysRead(kind) :
                 /\ key \in DOMAIN config.d
                 /\ config.d[key] \notin Columns(files[data_source].table)

\* C5: generate_chart never raises, and it returns no chart whenever the
\* config references an absent or non-table data source or, for any chart
\* kind, gives it an x or y column that the table does not have.
C5_NoChartOnBadReference ==
    ch_pc = "done" =>
        /\ ~ch_raised
        /\ BadChartReference(ch_config, Bundle(ch_files)) => ch_result = NoChart

\* C6: the image _fig_to_base64 returns has a base64 size of at most
\* max_size_bytes.
C6_EncodedSizeWithinCeiling ==
    (ch_pc \in {"close", "done"} /\ ch_result.kind = "data_uri") =>
        ch_result.b64_len <= max_size_bytes

-----------------------------------------------------------------------------
(* Claims about the data processor, checked under SpecClean.                *)

\* The non-missing cells of a text column, and those of them that read as a
\* number once ',', '$' and '%' are stripped.
PresentCount(series) == Len(series) - NullCount(series)

ParsedCount(series) ==
    Cardinality({r \in DOMAIN series :
        ~IsNA(series[r]) /\ IsNumberText(StripSymbols(series[r].s))})

\* C8: _convert_data_types makes a text column that it does not promote to
\* a date numeric if and only if at least 80% of the column's non-missing
\* values parse as numbers after ',', '$' and '%' are stripped.
C8_PromotedIffEightyPercent ==
    (cl_op = "_convert_data_types" /\ cl_pc = "done") =>
        \A c \in Columns(cl_input) :
            (/\ cl_input.dtype[c] = "object"
             /\ cl_result.dtype[c] # "datetime"
             /\ PresentCount(cl_input.data[c]) > 0)
            => (cl_result.dtype[c] = "number"
                  <=> 5 * ParsedCount(cl_input.data[c]) >= 4 * PresentCount(cl_input.data[c]))

\* C9: the table clean_dataframe returns under the auto policy has no column
\* that was more than half missing in the input table, and it has every
\* column that was exactly half missing in the input table, with no missing
\* cell left in it.
C9_NoMostlyMissingColumnLeft ==
    (/\ cl_op = "clean_dataframe"
     /\ cl_options.missing_strategy = "auto"
     /\ cl_pc = "done")
    => /\ \A c \in Columns(cl_result) :
             ~OverHalfMissing(NullCount(cl_input.data[c]), NRows(cl_input))
       /\ \A c \in Columns(cl_input) :
             (NRows(cl_input) > 0 /\ 2 * NullCount(cl_input.data[c]) = NRows(cl_input))
             => /\ c \in Columns(cl_result)
                /\ NullCount(cl_result.data[c]) = 0


-----------------------------------------------------------------------------
(* Claims about the CSV parser, checked under SpecCsv.                      *)

\* The (encoding, separator) pairs in their priority order.
PriorityOrder ==
    << [encoding |-> "utf-8", sep |-> ","],
       [encoding |-> "utf-8", sep |-> ";"],
       [encoding |-> "utf-8", sep |-> TAB],
       [encoding |-> "latin-1", sep |-> ","],
       [encoding |-> "latin-1", sep |-> ";"],
       [encoding |-> "latin-1", sep |-> TAB],
       [encoding |-> "cp1252", sep |-> ","],
       [encoding |-> "cp1252", sep |-> ";"],
       [encoding |-> "cp1252", sep |-> TAB] >>

\* The pair parses the file into a table of more than one column.
Qualifies(file, pair) ==
    /\ ReadCsv(file, pair.sep, pair.encoding).ok
    /\ ReadCsv(file, pair.sep, pair.encoding).ncols > 1

\* A semicolon-separated file with a Latin-1 accented letter: every line
\* that is not blank has the same number, at least two, of fields.
IsSemicolonLatin1(file) ==
    /\ \E i \in DOMAIN file : file[i] # <<>>
    /\ \E i \in DOMAIN file : \E j \in DOMAIN file[i] : file[i][j] = "E9"
    /\ \A i, j \in DOMAIN file :
          (file[i] # <<>> /\ file[j] # <<>>) =>
              /\ FieldCount(file[i], ";") >= 2
              /\ FieldCount(file[i], ";") = FieldCount(file[j], ";")

\* C10: _process_csv calls read_csv with the pairs in their priority order,
\* goes past every pair that raises or yields one column, and returns the
\* table of the first pair that yields more than one column; when no pair
\* does, it returns the table of the default comma/UTF-8 read or raises that
\* read's error as a ValueError.  A semicolon-separated Latin-1 file comes
\* back as a table of more than one column.
C10_FirstQualifyingPairWins ==
    csv_op = "_process_csv" =>
        /\ Len(csv_tried) <= Len(PriorityOrder)
        /\ \A i \in DOMAIN csv_tried : csv_tried[i] = PriorityOrder[i]
        /\ \A i \in DOMAIN csv_tried :
              Qualifies(csv_file, csv_tried[i]) =>
                  /\ i = Len(csv_tried)
                  /\ csv_pc = "done"
        /\ csv_pc = "done" =>
              LET qualifying == {k \in DOMAIN PriorityOrder :
                                    Qualifies(csv_file, PriorityOrder[k])}
                  default == ReadCsv(csv_file, ",", "utf-8")
              IN  /\ qualifying # {} =>
                        /\ ~csv_raised
                        /\ Len(csv_tried) = Min(qualifying)
                        /\ csv_result = ReadCsv(csv_file,
                                                PriorityOrder[Min(qualifying)].sep,
                                                PriorityOrder[Min(qualifying)].encoding)
                  /\ (qualifying = {} /\ default.ok) =>
                        /\ ~csv_raised
                        /\ Len(csv_tried) = Len(PriorityOrder)
                        /\ csv_result = default
                  /\ (qualifying = {} /\ ~default.ok) =>
                        /\ csv_raised
                        /\ Len(csv_tried) = Len(PriorityOrder)
                        /\ csv_exc = "ValueError: " \o default.exc
                  /\ IsSemicolonLatin1(csv_file) =>
                        /\ ~csv_raised
                        /\ csv_result.ok
                        /\ csv_result.ncols > 1

\* C10 witness: a two-line semicolon-separated Latin-1 file was returned as
\* the table of the fifth pair, after the three UTF-8 reads raised and the
\* Latin-1 comma read gave one column.
C10_Witness ==
    /\ csv_op = "_process_csv"
    /\ csv_pc = "done"
    /\ IsSemicolonLatin1(csv_file)
    /\ Len(csv_file) >= 2
    /\ Len(csv_tried) = 5
    /\ csv_result.ok
    /\ csv_result.encoding = "latin-1"
    /\ csv_result.sep = ";"
    /\ csv_result.ncols = 2

-----------------------------------------------------------------------------
(* Claims on the handler's treatment of a failing upload.                    *)

\* The uploads of the request that process_file ingests without raising, and
\* those it raises on (the empty file name is skipped, not ingested).
UsableUploads(request) ==
    {request.files[i] : i \in DOMAIN request.files} \cap
        {f \in UploadNames : f # "" /\ Extension(f) \in supported_extensions}

FailingUploads(request) ==
    {request.files[i] : i \in DOMAIN request.files} \cap
        {f \in UploadNames : f # "" /\ Extension(f) \notin supported_extensions}

\* C11: when a request holds both a file whose ingestion fails (unsupported
\* extension) and a usable file, the handler still calls the analyst with
\* the usable files and does not answer the request with a 500 error.
C11_FailingFileDropsOnlyItself ==
    ( /\ h_pc = "done"
      /\ h_req.questions = "present"
      /\ UsableUploads(h_req) # {}
      /\ FailingUploads(h_req) # {} )
    => /\ h_response.status # 500
       /\ ag_pc = "done"
       /\ ag_files = UsableUploads(h_req)

-----------------------------------------------------------------------------
(* DataProcessor.prepare_for_ml (data_processor.py 178-207), invoked on the *)
(* one DataProcessor instance app.py creates at import (app.py 36).         *)

\* df.select_dtypes(include=['object', 'category']).columns, in table order
CategoricalColumns(tbl) ==
    SelectSeq(tbl.cols, LAMBDA c : tbl.dtype[c] = "object")

\* LabelEncoder().fit(series.astype(str)): classes_ are the distinct texts
\* (kept sorted by sklearn; a set here, the order being that of TextLess).
LabelEncoderFit(series) == [classes |-> {AsStr(series[r]) : r \in DOMAIN series}]

\* le.transform: the rank of each text among the classes
LabelEncoderTransform(le, series) ==
    [r \in DOMAIN series |->
        Num(Cardinality({k \in le.classes : TextLess(k, AsStr(series[r]))}))]

\* StandardScaler().fit(df[cols]): per column the count, sum and sum of
\* squares of the non-missing values, which fix mean_ and var_.
StandardScalerFit(tbl, cols) ==
    [cols |-> cols,
     stats |-> [c \in {cols[i] : i \in DOMAIN cols} |->
                  [n |-> Len(tbl.data[c]) - NullCount(tbl.data[c]),
                   sum |-> SumCells(tbl.data[c], Len(tbl.data[c])),
                   sumsq |-> SumCells([r \in DOMAIN tbl.data[c] |->
                                         Num(tbl.data[c][r].v * tbl.data[c][r].v)],
                                      Len(tbl.data[c]))]]]

\* scaler.transform: (v - mean_) / scale_.  The cell keeps the numerator
\* n*v - sum of the centred value; the positive factor 1 / (n * scale_) is
\* left out.
StandardScalerTransform(scaler, tbl) ==
    [tbl EXCEPT !.data =
        [c \in DOMAIN tbl.data |->
            IF c \in DOMAIN scaler.stats
            THEN [r \in DOMAIN tbl.data[c] |->
                    IF IsNA(tbl.data[c][r]) THEN NA
                    ELSE Num(scaler.stats[c].n * tbl.data[c][r].v
                             - scaler.stats[c].sum)]
            ELSE tbl.data[c]]]

\* lines 192-194: the numeric columns of df_ml, the target dropped
FeatureNumericColumns(df_ml, target_column) ==
    SelectSeq(df_ml.cols,
              LAMBDA c : df_ml.dtype[c] = "number" /\ c # target_column)

\* line 179: df_ml = df.copy(); line 183: categorical_cols is read once
PrepareForMl_Enter(t) ==
    /\ ml_pc[t] = "call"
    /\ ml_df_ml' = [ml_df_ml EXCEPT ![t] = ml_df[t]]
    /\ ml_i' = [ml_i EXCEPT ![t] = 1]
    /\ ml_pc' = [ml_pc EXCEPT ![t] = "encode"]
    /\ UNCHANGED <<ml_encoders, ml_scalers, ml_df, ml_target, ml_result>>
    /\ UNCHANGED nonMlVars

\* lines 185-189: one iteration of the loop over categorical_cols
PrepareForMl_Encode(t) ==
    /\ ml_pc[t] = "encode"
    /\ ml_i[t] <= Len(CategoricalColumns(ml_df[t]))
    /\ LET col == CategoricalColumns(ml_df[t])[ml_i[t]]
           le == LabelEncoderFit(ml_df_ml[t].data[col])
       IN  IF col # ml_target[t]
           THEN /\ ml_df_ml' =
                     [ml_df_ml EXCEPT
                        ![t].data[col] = LabelEncoderTransform(le, @),
                        ![t].dtype[col] = "number"]
                /\ ml_encoders' = Put(ml_encoders, col, le)
           ELSE UNCHANGED <<ml_df_ml, ml_encoders>>
    /\ ml_i' = [ml_i EXCEPT ![t] = @ + 1]
    /\ UNCHANGED <<ml_scalers, ml_pc, ml_df, ml_target, ml_result>>
    /\ UNCHANGED nonMlVars

\* lines 192-199: fit one scaler on the numeric columns, if there are any
PrepareForMl_Scale(t) ==
    /\ ml_pc[t] = "encode"
    /\ ml_i[t] > Len(CategoricalColumns(ml_df[t]))
    /\ LET numeric_cols == FeatureNumericColumns(ml_df_ml[t], ml_target[t])
           scaler == StandardScalerFit(ml_df_ml[t], numeric_cols)
       IN  IF Len(numeric_cols) > 0
           THEN /\ ml_df_ml' = [ml_df_ml EXCEPT
                                  ![t] = StandardScalerTransform(scaler, @)]
                /\ ml_scalers' = Put(ml_scalers, "features", scaler)
           ELSE UNCHANGED <<ml_df_ml, ml_scalers>>
    /\ ml_pc' = [ml_pc EXCEPT ![t] = "return"]
    /\ UNCHANGED <<ml_encoders, ml_df, ml_target, ml_i, ml_result>>
    /\ UNCHANGED nonMlVars

\* lines 201-207: the dict returned holds self.encoders and self.scalers
\* themselves; ml_result keeps what they hold when the call returns.
PrepareForMl_Return(t) ==
    /\ ml_pc[t] = "return"
    /\ ml_result' =
         [ml_result EXCEPT
            ![t] = MlResult(ml_df_ml[t], ml_encoders, ml_scalers,
                            SelectSeq(ml_df_ml[t].cols,
                                      LAMBDA c : c # ml_target[t]),
                            ml_target[t])]
    /\ ml_pc' = [ml_pc EXCEPT ![t] = "done"]
    /\ UNCHANGED <<ml_encoders, ml_scalers, ml_df, ml_target, ml_i, ml_df_ml>>
    /\ UNCHANGED nonMlVars

MlNext ==
    \E t \in Invocations :
        \/ PrepareForMl_Enter(t)
        \/ PrepareForMl_Encode(t)
        \/ PrepareForMl_Scale(t)
        \/ PrepareForMl_Return(t)

\* The tables prepare_for_ml is invoked on: two rows, a subset of the
\* columns c, d (text) and x (number).
MlSeries ==
    [c |-> {<<Str(<<"k">>), Str(<<"o">>)>>, <<Str(<<"o">>), Str(<<"o">>)>>},
     d |-> {<<Str(<<"w">>), NA>>},
     x |-> {<<Num(2), Num(4)>>, <<Num(4), Num(4)>>}]

MlDtype == [c |-> "object", d |-> "object", x |-> "number"]

MlTables ==
    UNION {{[cols |-> cols,
             dtype |-> [k \in {cols[i] : i \in DOMAIN cols} |-> MlDtype[k]],
             data |-> data] :
              data \in [{cols[i] : i \in DOMAIN cols} -> UNION {MlSeries.c, MlSeries.d, MlSeries.x}]}
           : cols \in {<<"c", "x">>, <<"x">>, <<"c">>, <<"d", "c">>}}

MlInit ==
    /\ ml_encoders = EmptyDict
    /\ ml_scalers = EmptyDict
    /\ ml_pc = [t \in Invocations |-> "call"]
    /\ ml_df \in [Invocations ->
                    {tbl \in MlTables :
                        \A k \in Columns(tbl) : tbl.data[k] \in MlSeries[k]}]
    /\ ml_target \in [Invocations -> {None, "c"}]
    /\ ml_i = [t \in Invocations |-> 1]
    /\ ml_df_ml = [t \in Invocations |-> EmptyTable]
    /\ ml_result = [t \in Invocations |-> NoMlResult]
    /\ llm = NoResponse
    /\ AgentIdle
    /\ ChartIdle
    /\ HandlerIdle
    /\ CleanIdle
    /\ CsvIdle
    /\ FpIdle
    /\ RqIdle

SpecMl == MlInit /\ [][MlNext]_vars

\* What one invocation alone fits: the table with every categorical column
\* but the target encoded, its encoders and its scaler.
OwnEncoders(df, target_column) ==
    [c \in {k \in Columns(df) : df.dtype[k] = "object" /\ k # target_column} |->
        LabelEncoderFit(df.data[c])]

OwnEncoded(df, target_column) ==
    [df EXCEPT
       !.data = [c \in DOMAIN df.data |->
                   IF c \in DOMAIN OwnEncoders(df, target_column)
                   THEN LabelEncoderTransform(OwnEncoders(df, target_column)[c],
                                              df.data[c])
                   ELSE df.data[c]],
       !.dtype = [c \in DOMAIN df.dtype |->
                    IF c \in DOMAIN OwnEncoders(df, target_column)
                    THEN "number" ELSE df.dtype[c]]]

OwnScalers(df, target_column) ==
    LET encoded == OwnEncoded(df, target_column)
        numeric_cols == FeatureNumericColumns(encoded, target_column)
    IN  IF Len(numeric_cols) > 0
        THEN [k \in {"features"} |-> StandardScalerFit(encoded, numeric_cols)]
        ELSE EmptyDict

\* C12: whatever the order or interleaving of the invocations on the shared
\* DataProcessor, the encoders and scalers a prepare_for_ml call returns are
\* exactly those fitted on that call's own table.
C12_ReturnsOwnEncodersAndScalers ==
    \A t \in Invocations :
        ml_pc[t] = "done" =>
            /\ ml_result[t].encoders = OwnEncoders(ml_df[t], ml_target[t])
            /\ ml_result[t].scalers = OwnScalers(ml_df[t], ml_target[t])

-----------------------------------------------------------------------------
(* FileProcessor.process_file (file_processor.py 26-42) and _process_image  *)
(* (114-137).  A file path is a sequence of characters.                     *)

UpperLetters ==
    <<"A", "B", "C", "D", "E", "F", "G", "H", "I", "J", "K", "L", "M",
      "N", "O", "P", "Q", "R", "S", "T", "U", "V", "W", "X", "Y", "Z">>

LowerLetters ==
    <<"a", "b", "c", "d", "e", "f", "g", "h", "i", "j", "k", "l", "m",
      "n", "o", "p", "q", "r", "s", "t", "u", "v", "w", "x", "y", "z">>

\* A process_file that compares the extension as it is written.
KeepCase(ch) == ch

\* str.lower() of one character
LowerChar(ch) ==
    IF \E i \in DOMAIN UpperLetters : UpperLetters[i] = ch
    THEN LowerLetters[CHOOSE i \in DOMAIN UpperLetters : UpperLetters[i] = ch]
    ELSE ch

\* str.lower()
Lower(chars) == [i \in DOMAIN chars |-> LowerChar(chars[i])]

\* str.rfind(ch), counting from 1: 0 when ch does not occur
RFind(chars, ch) == Max({0} \cup {i \in DOMAIN chars : chars[i] = ch})

\* os.path.splitext(p)[1]: from the last dot of the last path component,
\* unless only dots precede it in that component.
SplitExt(p) ==
    LET sepIndex == RFind(p, "/")
        dotIndex == RFind(p, ".")
    IN  IF /\ dotIndex > sepIndex
           /\ \E k \in (sepIndex + 1)..(dotIndex - 1) : p[k] # "."
        THEN SubSeq(p, dotIndex, Len(p))
        ELSE <<>>

\* FileProcessor.__init__ (13-24): the parser registered for each extension
supported_parsers ==
    (<<".", "c", "s", "v">> :> "_process_csv")
    @@ (<<".", "x", "l", "s", "x">> :> "_process_excel")
    @@ (<<".", "x", "l", "s">> :> "_process_excel")
    @@ (<<".", "j", "s", "o", "n">> :> "_process_json")
    @@ (<<".", "t", "x", "t">> :> "_process_text")
    @@ (<<".", "t", "s", "v">> :> "_process_tsv")
    @@ (<<".", "p", "n", "g">> :> "_process_image")
    @@ (<<".", "j", "p", "g">> :> "_process_image")
    @@ (<<".", "j", "p", "e", "g">> :> "_process_image")

\* The names bound at module level by the imports of file_processor.py 5-10.
ModuleNames == {"os", "pd", "json", "Optional", "Union", "Any", "Image", "io"}

Path(name) == name.stem \o name.ext

\* process_file raises: `exc` leaves the call.
ProcessFile_Raise(exc) ==
    /\ fp_exc' = exc
    /\ fp_raised' = TRUE
    /\ fp_pc' = "done"
    /\ UNCHANGED fp_result

\* The parser returns, and process_file returns what it returned.
ProcessFile_ReturnParsed(parsed) ==
    /\ fp_result' = parsed
    /\ fp_pc' = "done"
    /\ UNCHANGED <<fp_exc, fp_raised>>

\* process_file 31-42: the existence check, the extension, the lookup and
\* the call of the registered parser.
ProcessFile_Dispatch ==
    /\ fp_pc = "call"
    /\ LET ext == SplitExt(Lower(Path(fp_name)))
       IN  IF ~fp_exists
           THEN /\ ProcessFile_Raise("FileNotFoundError")
                /\ UNCHANGED fp_calls
           ELSE IF ext \notin DOMAIN supported_parsers
           THEN /\ ProcessFile_Raise("ValueError: Unsupported file type")
                /\ UNCHANGED fp_calls
           ELSE /\ fp_calls' = Append(fp_calls, supported_parsers[ext])
                /\ fp_pc' = supported_parsers[ext]
                /\ UNCHANGED <<fp_result, fp_exc, fp_raised>>
    /\ UNCHANGED <<fp_name, fp_exists, fp_content>>
    /\ UNCHANGED nonFpVars

\* f"data:image/{img.format.lower()};base64,{img_base64}"
ImageDataUri(format) ==
    <<"data:image/">> \o Lower(format) \o <<";base64,", "<img_base64>">>

\* _process_image 114-137: Image.open, the image_info dict, the re-encoding
\* into img_buffer, base64.b64encode; every exception becomes a ValueError.
ProcessImage ==
    /\ fp_pc = "_process_image"
    /\ IF ~fp_content.decodes
       THEN ProcessFile_Raise("ValueError: Failed to process image file: UnidentifiedImageError")
       ELSE IF "base64" \notin ModuleNames
       THEN ProcessFile_Raise("ValueError: Failed to process image file: NameError")
       ELSE ProcessFile_ReturnParsed(
                Parsed("image", fp_content.format, fp_content.width,
                       fp_content.height, ImageDataUri(fp_content.format)))
    /\ UNCHANGED <<fp_name, fp_exists, fp_content, fp_calls>>
    /\ UNCHANGED nonFpVars

\* What each of the other parsers returns when it does not raise.
ParsedKind ==
    [_process_csv |-> "table", _process_tsv |-> "table",
     _process_excel |-> "table", _process_json |-> "json",
     _process_text |-> "text"]

\* _process_csv, _process_excel, _process_json, _process_text, _process_tsv
\* as process_file sees them: the parser returns its value, or raises the
\* ValueError its `except Exception` makes of any failure.
ProcessTableOrText ==
    /\ fp_pc \in DOMAIN ParsedKind
    /\ \/ ProcessFile_ReturnParsed(Parsed(ParsedKind[fp_pc], <<>>, 0, 0, <<>>))
       \/ ProcessFile_Raise("ValueError: Failed to process file")
    /\ UNCHANGED <<fp_name, fp_exists, fp_content, fp_calls>>
    /\ UNCHANGED nonFpVars

FpNext ==
    \/ ProcessFile_Dispatch
    \/ ProcessImage
    \/ ProcessTableOrText

\* The paths process_file is called on: a stem without extension, followed
\* by nothing, a lone dot, or a dot and an extension in lower, upper or
\* mixed case.
Stems ==
    {<<"a">>, <<".", "h">>, <<"R", "e", "p">>,
     <<"d", ".", "c", "s", "v", "/", "f">>}

Upper(chars) ==
    [i \in DOMAIN chars |->
        IF \E k \in DOMAIN LowerLetters : LowerLetters[k] = chars[i]
        THEN UpperLetters[CHOOSE k \in DOMAIN LowerLetters : LowerLetters[k] = chars[i]]
        ELSE chars[i]]

Capitalised(chars) ==
    [i \in DOMAIN chars |-> IF i = 2 THEN Upper(chars)[i] ELSE chars[i]]

OtherExtensions ==
    {<<".", "p", "d", "f">>, <<".", "c", "s", "v", "x">>, <<".", "c", "s">>}

ExtensionsTried ==
    {<<>>, <<".">>}
    \cup UNION {{e, Upper(e), Capitalised(e)} :
                   e \in DOMAIN supported_parsers \cup OtherExtensions}

ImageContents ==
    {NotAnImage,
     ImageBytes(TRUE, <<"P", "N", "G">>, 1, 1),
     ImageBytes(TRUE, <<"P", "N", "G">>, 2, 1),
     ImageBytes(TRUE, <<"J", "P", "E", "G">>, 2, 1)}

FpInit ==
    /\ fp_pc = "call"
    /\ fp_name \in [stem : Stems, ext : ExtensionsTried]
    /\ fp_exists \in BOOLEAN
    /\ fp_content \in ImageContents
    /\ fp_calls = <<>>
    /\ fp_result = NotParsed
    /\ fp_exc = None
    /\ fp_raised = FALSE
    /\ llm = NoResponse
    /\ AgentIdle
    /\ ChartIdle
    /\ HandlerIdle
    /\ CleanIdle
    /\ CsvIdle
    /\ MlIdle
    /\ RqIdle

SpecFp == FpInit /\ [][FpNext]_vars

\* Two texts are the same but for the case of their letters.
EqualIgnoringCase(a, b) ==
    /\ Len(a) = Len(b)
    /\ \A i \in DOMAIN a :
          \/ a[i] = b[i]
          \/ \E k \in DOMAIN UpperLetters :
                {a[i], b[i]} = {UpperLetters[k], LowerLetters[k]}

RegistryOfTheContract ==
    {<<".">> \o e : e \in {<<"c", "s", "v">>, <<"t", "s", "v">>,
                           <<"x", "l", "s", "x">>, <<"x", "l", "s">>,
                           <<"j", "s", "o", "n">>, <<"t", "x", "t">>,
                           <<"p", "n", "g">>, <<"j", "p", "g">>,
                           <<"j", "p", "e", "g">>}}

C14_WellFormedImageReturnsInfo ==
    (fp_pc = "done" /\ fp_calls = <<"_process_image">>) =>
        IF fp_content.decodes
        THEN /\ ~fp_raised
             /\ fp_result.kind = "image"
             /\ fp_result.format = fp_content.format
             /\ fp_result.width = fp_content.width
             /\ fp_result.height = fp_content.height
             /\ fp_result.base64_data = ImageDataUri(fp_content.format)
        ELSE fp_raised

-----------------------------------------------------------------------------
(* Claims about the computations of the analyst, checked under SpecAgent.   *)

\* The item asks for a regression of two numeric columns of a table of the
\* bundle in which some row misses x or y and at least two rows miss neither.
RegressionOverGaps(item, files) ==
    /\ item.isdict
    /\ Get(item.d, "type", None) = "regression"
    /\ Get(item.d, "data_source", None) \in DOMAIN files
    /\ LET data == files[item.d.data_source]
           columns == Get(item.d, "columns", <<>>)
       IN  /\ Len(columns) = 2
           /\ ColumnLookup(data, columns) = "found"
           /\ \A i \in 1..2 : data.table.dtype[columns[i]] = "number"
           /\ \E i \in 1..2 : HasMissing(data.table, columns[i])
           /\ DropNaCount(data.table, {columns[1], columns[2]}) >= 2

\* C15: a regression over two columns of a table in which some rows miss x
\* or y, executed by _perform_computations, leaves a regression result under
\* its key (the fit on the rows that miss neither), not a computation error.
C15_RegressionExcludesMissingRows ==
    (/\ ag_pc \in {"return", "done"}
     /\ Flag(ag_plan, "requires_computation")
     /\ Len(ag_log) = Len(ag_comps)
     /\ \A i \in DOMAIN ag_comps : ag_comps[i].isdict)
    => \A i \in DOMAIN ag_comps :
          RegressionOverGaps(ag_comps[i], Bundle(ag_files)) =>
              LET key == "regression_" \o ag_comps[i].d.columns[1] \o "_"
                             \o ag_comps[i].d.columns[2]
              IN  /\ key \in DOMAIN ag_results
                  /\ ag_results[key].kind = "regression"

-----------------------------------------------------------------------------
(* DataProcessor._remove_outliers (data_processor.py 130-149), called on its *)
(* own and through clean_dataframe with outlier removal asked for.          *)

\* _remove_outliers called directly, with the method argument.
RemoveOutliers_Call ==
    /\ cl_pc = "call"
    /\ cl_op = "_remove_outliers"
    /\ cl_df' = RemoveOutliers(cl_input, cl_options.method)
    /\ cl_result' = cl_df'
    /\ cl_pc' = "done"
    /\ UNCHANGED <<cl_op, cl_options, cl_input>>
    /\ UNCHANGED nonCleanVars

OutlierNext ==
    \/ CleanDataframe_DropEmpty
    \/ CleanDataframe_HandleMissing
    \/ CleanDataframe_ConvertTypes
    \/ CleanDataframe_Return
    \/ RemoveOutliers_Call

\* The tables outliers are removed from: five rows, two numeric columns.
OutlierSeriesA ==
    {<<Num(1), Num(1), Num(1), Num(1), Num(9)>>,
     <<Num(1), Num(2), Num(3), Num(4), Num(5)>>,
     <<Num(2), Num(2), Num(2), Num(2), Num(2)>>,
     <<Num(9), Num(3), Num(3), Num(4), Num(3)>>,
     <<Num(1), NA, Num(2), Num(3), Num(2)>>}

OutlierSeriesB ==
    {<<Num(1), Num(1), Num(1), Num(5), Num(9)>>,
     <<Num(5), Num(4), Num(3), Num(2), Num(1)>>,
     <<Num(0), Num(6), Num(6), Num(7), Num(6)>>,
     <<Num(4), Num(4), Num(4), Num(4), Num(4)>>}

OutlierTables ==
    {[cols |-> <<"A", "B">>,
      dtype |-> [A |-> "number", B |-> "number"],
      data |-> [A |-> a, B |-> b]] : a \in OutlierSeriesA, b \in OutlierSeriesB}

OutlierInit ==
    /\ cl_pc = "call"
    /\ cl_input \in OutlierTables
    /\ \/ /\ cl_op = "clean_dataframe"
          /\ cl_options \in {OutlierOptions(d, o, m) :
                d \in BOOLEAN, o \in BOOLEAN, m \in {"iqr", "zscore"}}
       \/ /\ cl_op = "_remove_outliers"
          /\ cl_options \in {OutlierOptions(FALSE, TRUE, m) :
                m \in {"iqr", "zscore", "mad"}}
    /\ cl_df = cl_input
    /\ cl_result = EmptyTable
    /\ llm = NoResponse
    /\ AgentIdle
    /\ ChartIdle
    /\ HandlerIdle
    /\ CsvIdle
    /\ MlIdle
    /\ FpIdle
    /\ RqIdle

SpecOutliers == OutlierInit /\ [][OutlierNext]_vars

\* Every cell of every numeric column is a value within the column's
\* [Q1 - 1.5 IQR, Q3 + 1.5 IQR].
NothingBeyondBounds(tbl) ==
    \A c \in NumericColumns(tbl) :
        \A r \in DOMAIN tbl.data[c] :
            /\ ~IsNA(tbl.data[c][r])
            /\ 8 * tbl.data[c][r].v >= LowerBound8(tbl.data[c])
            /\ 8 * tbl.data[c][r].v <= UpperBound8(tbl.data[c])

BeforeOutliers(df, options) ==
    LET converted ==
            ConvertDataTypes(
                HandleMissingValues(DropEmptyColumns(DropEmptyRows(df)),
                                    options.missing_strategy))
    IN  IF options.remove_duplicates THEN DropDuplicates(converted) ELSE converted

\* The rows a method keeps, by the values of one column.
MethodMask(series, method) ==
    IF method = "iqr" THEN IqrMask(series) ELSE ZscoreMask(series)

\* Column A filters the table, then column B filters what A left, its
\* bounds computed on what A left.
NarrowedByAThenB(tbl, method) ==
    LET afterA == KeepRows(tbl, MethodMask(tbl.data["A"], method))
    IN  KeepRows(afterA, MethodMask(afterA.data["B"], method))

\* C17: clean_dataframe removes no row as an outlier unless the options
\* enable it; when they do, the numeric columns filter the table one after
\* the other in table order, each on what the earlier ones left, by the
\* method the options chose among iqr and zscore.
C17_OptInSequentialChosenMethod ==
    (cl_op = "clean_dataframe" /\ cl_pc = "done") =>
        cl_result =
            IF cl_options.remove_outliers
            THEN NarrowedByAThenB(BeforeOutliers(cl_input, cl_options),
                                  cl_options.method)
            ELSE BeforeOutliers(cl_input, cl_options)

-----------------------------------------------------------------------------
(* Claims about the order of the promotions, checked under SpecClean.       *)

\* The text starts like YYYY-MM-DD, MM/DD/YYYY or MM-DD-YYYY.
StartsLikeDate(chars) ==
    LET D(i) == i <= Len(chars) /\ IsDigit(chars[i])
        Is(i, ch) == i <= Len(chars) /\ chars[i] = ch
    IN  \/ /\ \A i \in {1, 2, 3, 4, 6, 7, 9, 10} : D(i)
           /\ Is(5, "-") /\ Is(8, "-")
        \/ /\ \A i \in {1, 2, 4, 5, 7, 8, 9, 10} : D(i)
           /\ \/ Is(3, "/") /\ Is(6, "/")
              \/ Is(3, "-") /\ Is(6, "-")

\* One of the first ten non-missing values of the column starts like a date.
SampleHoldsDate(series) ==
    \E r \in DOMAIN series :
        /\ ~IsNA(series[r])
        /\ StartsLikeDate(series[r].s)
        /\ Cardinality({q \in 1..(r - 1) : ~IsNA(series[q])}) < 10

-----------------------------------------------------------------------------
(* Claims about the routing flags, checked under Spec.                      *)

-----------------------------------------------------------------------------
(* Claims about the keys of the computation results, under SpecAgent.       *)

\* C20: after _perform_computations ran over a list of dict items, every
\* item that executed successfully has its own result in the results, and
\* in the result analyze returns, under its key: no other successful item
\* replaced it, and no computation result replaced a field of the plan.
C20_EveryResultKeptUnderItsKey ==
    (/\ ag_pc = "done"
     /\ ag_exc = None
     /\ Flag(ag_plan, "requires_computation")
     /\ \A i \in DOMAIN ag_comps : ag_comps[i].isdict)
    => /\ \A i \in DOMAIN ag_comps :
             LET outcome == ItemOutcome(ag_comps[i], Bundle(ag_files))
             IN  outcome.tag = "ok" =>
                    /\ outcome.key \in DOMAIN ag_result
                    /\ ag_result[outcome.key] = outcome.value
       /\ \A k \in {"answers", "insights", "success", "requires_computation",
                    "computations"} \cap DOMAIN ag_result :
             ag_result[k] = ParseAnalysisResponse(llm)[k]

-----------------------------------------------------------------------------
(* The temporary files of a request once the handler has returned.          *)

\* C21: whenever the /api/ handler is left, on the success path and on
\* every error path, every temporary file the request saved to the upload
\* folder has been removed, and the handler has returned a JSON response
\* instead of raising.
C21_ReturnsWithFolderCleared ==
    h_pc = "done" =>
        /\ h_disk = {}
        /\ ~h_raised
        /\ h_response # NotReturned

-----------------------------------------------------------------------------
(* analyze_data (app.py) handling two requests at once over the one upload  *)
(* folder temp_uploads.                                                     *)

\* werkzeug's secure_filename on the names uploaded here: path separators
\* become spaces, runs of spaces become "_", leading dots and underscores
\* are stripped.
secure_filename(filename) ==
    CASE filename = "../data.csv" -> "data.csv"
      [] OTHER -> filename

\* app.py 77-78: the path a part is saved to is the folder and this name.
CurrentName(r) == secure_filename(rq_files[r][rq_i[r]])

\* uploaded_files[filename] = filepath: a key already there keeps its place.
AddKey(keys, name) ==
    IF \E n \in DOMAIN keys : keys[n] = name THEN keys ELSE Append(keys, name)

\* app.py 68-79: the next part of request r is saved under its sanitized
\* name; file.save replaces a file of that name.
SaveFileOf(r) ==
    /\ rq_pc[r] = "files"
    /\ rq_i[r] <= Len(rq_files[r])
    /\ temp_uploads' = [temp_uploads EXCEPT ![CurrentName(r)] = r]
    /\ rq_pc' = [rq_pc EXCEPT ![r] = "process"]
    /\ UNCHANGED <<rq_files, rq_i, rq_k, rq_uploaded, rq_data_files, rq_exc,
                   rq_response, rq_raised>>
    /\ UNCHANGED nonRqVars

\* app.py 82-86: process_file parses what the path holds now, or raises
\* FileNotFoundError when the path is gone (file_processor.py 31-32).
IngestFileOf(r) ==
    /\ rq_pc[r] = "process"
    /\ IF temp_uploads[CurrentName(r)] = 0
       THEN /\ rq_exc' = [rq_exc EXCEPT ![r] = "FileNotFoundError"]
            /\ rq_pc' = [rq_pc EXCEPT ![r] = "except"]
            /\ rq_k' = [rq_k EXCEPT ![r] = 1]
            /\ UNCHANGED <<rq_i, rq_uploaded, rq_data_files>>
       ELSE /\ rq_data_files' =
                  [rq_data_files EXCEPT ![r][CurrentName(r)] =
                                            temp_uploads[CurrentName(r)]]
            /\ rq_uploaded' =
                  [rq_uploaded EXCEPT ![r] = AddKey(@, CurrentName(r))]
            /\ rq_i' = [rq_i EXCEPT ![r] = @ + 1]
            /\ rq_pc' = [rq_pc EXCEPT ![r] = "files"]
            /\ UNCHANGED <<rq_exc, rq_k>>
    /\ UNCHANGED <<temp_uploads, rq_files, rq_response, rq_raised>>
    /\ UNCHANGED nonRqVars

\* app.py 89-98: the analysis and the chart work on data_files only.
AnalyzeOf(r) ==
    /\ rq_pc[r] = "files"
    /\ rq_i[r] > Len(rq_files[r])
    /\ rq_pc' = [rq_pc EXCEPT ![r] = "cleanup"]
    /\ rq_k' = [rq_k EXCEPT ![r] = 1]
    /\ UNCHANGED <<temp_uploads, rq_files, rq_i, rq_uploaded, rq_data_files,
                   rq_exc, rq_response, rq_raised>>
    /\ UNCHANGED nonRqVars

\* app.py 101-102 and 109-110: the next path of a cleanup loop and its
\* os.path.exists; after the last path, the return of line 105 or 113-116.
CleanupExistsOf(r) ==
    /\ rq_pc[r] \in {"cleanup", "except"}
    /\ IF rq_k[r] > Len(rq_uploaded[r])
       THEN /\ rq_response' =
                  [rq_response EXCEPT ![r] =
                       IF rq_pc[r] = "cleanup" THEN 200 ELSE 500]
            /\ rq_pc' = [rq_pc EXCEPT ![r] = "done"]
            /\ UNCHANGED rq_k
       ELSE IF temp_uploads[rq_uploaded[r][rq_k[r]]] # 0
       THEN /\ rq_pc' = [rq_pc EXCEPT ![r] =
                            IF @ = "cleanup" THEN "remove" ELSE "except_remove"]
            /\ UNCHANGED <<rq_k, rq_response>>
       ELSE /\ rq_k' = [rq_k EXCEPT ![r] = @ + 1]
            /\ UNCHANGED <<rq_pc, rq_response>>
    /\ UNCHANGED <<temp_uploads, rq_files, rq_i, rq_uploaded, rq_data_files,
                   rq_exc, rq_raised>>
    /\ UNCHANGED nonRqVars

\* app.py 103 and 111: os.remove deletes what the path holds now; when the
\* path is gone it raises FileNotFoundError, to the except clause from line
\* 103 and out of the handler from line 111.
CleanupRemoveOf(r) ==
    /\ rq_pc[r] \in {"remove", "except_remove"}
    /\ LET name == rq_uploaded[r][rq_k[r]]
       IN  IF temp_uploads[name] # 0
           THEN /\ temp_uploads' = [temp_uploads EXCEPT ![name] = 0]
                /\ rq_k' = [rq_k EXCEPT ![r] = @ + 1]
                /\ rq_pc' = [rq_pc EXCEPT ![r] =
                                IF @ = "remove" THEN "cleanup" ELSE "except"]
                /\ UNCHANGED <<rq_exc, rq_raised>>
           ELSE IF rq_pc[r] = "remove"
           THEN /\ rq_exc' = [rq_exc EXCEPT ![r] = "FileNotFoundError"]
                /\ rq_pc' = [rq_pc EXCEPT ![r] = "except"]
                /\ rq_k' = [rq_k EXCEPT ![r] = 1]
                /\ UNCHANGED <<temp_uploads, rq_raised>>
           ELSE /\ rq_exc' = [rq_exc EXCEPT ![r] = "FileNotFoundError"]
                /\ rq_raised' = [rq_raised EXCEPT ![r] = TRUE]
                /\ rq_pc' = [rq_pc EXCEPT ![r] = "done"]
                /\ UNCHANGED <<temp_uploads, rq_k>>
    /\ UNCHANGED <<rq_files, rq_i, rq_uploaded, rq_data_files, rq_response>>
    /\ UNCHANGED nonRqVars

ConcurrentNext ==
    \/ \E r \in Handlers : SaveFileOf(r)
    \/ \E r \in Handlers : IngestFileOf(r)
    \/ \E r \in Handlers : AnalyzeOf(r)
    \/ \E r \in Handlers : CleanupExistsOf(r)
    \/ \E r \in Handlers : CleanupRemoveOf(r)

\* The parts of a request, besides questions.txt: none, one or two files.
ConcurrentUploads ==
    {<<>>, <<"data.csv">>, <<"../data.csv">>, <<"notes.txt">>,
     <<"data.csv", "notes.txt">>, <<"notes.txt", "../data.csv">>}

\* Both requests have passed lines 58-66; the folder is empty.
ConcurrentInit ==
    /\ temp_uploads = EmptyFolder
    /\ rq_files \in [Handlers -> ConcurrentUploads]
    /\ rq_pc = [r \in Handlers |-> "files"]
    /\ rq_i = [r \in Handlers |-> 1]
    /\ rq_k = [r \in Handlers |-> 1]
    /\ rq_uploaded = [r \in Handlers |-> <<>>]
    /\ rq_data_files = [r \in Handlers |-> EmptyFolder]
    /\ rq_exc = [r \in Handlers |-> None]
    /\ rq_response = [r \in Handlers |-> 0]
    /\ rq_raised = [r \in Handlers |-> FALSE]
    /\ llm = NoResponse
    /\ AgentIdle
    /\ ChartIdle
    /\ HandlerIdle
    /\ CleanIdle
    /\ CsvIdle
    /\ MlIdle
    /\ FpIdle

SpecConcurrent == ConcurrentInit /\ [][ConcurrentNext]_vars

\* Every table of a request's data_files was parsed from the bytes the
\* request uploaded itself.
IngestsOwnBytes ==
    \A r \in Handlers : \A name \in SanitizedNames :
        rq_data_files[r][name] \in {0, r}

\* Request r has saved a file under this name and has not yet ingested it.
SavedNotIngested(r, name) ==
    /\ rq_pc[r] = "process"
    /\ CurrentName(r) = name
    /\ temp_uploads[name] = r

\* A step leaves every file that is saved and not yet ingested as it is.
PendingFilesKept ==
    \A r \in Handlers : \A name \in SanitizedNames :
        SavedNotIngested(r, name) => temp_uploads'[name] = r

\* C22: two requests handled at the same time that upload files with the
\* same sanitized name do not interfere: each request ingests the bytes it
\* uploaded itself, and no request overwrites or deletes a temporary file
\* another in-flight request has saved and not yet ingested.
C22_SameNameRequestsDoNotInterfere ==
    /\ []IngestsOwnBytes
    /\ [][PendingFilesKept]_vars

-----------------------------------------------------------------------------
(* The figures of the process-wide plotting context after generate_chart.   *)

\* C23: every figure a generate_chart call creates in the process-wide
\* plotting context has been closed by the time the call returns, on every
\* path: successful encoding, a renderer that fails after creating its
\* figure, a failure inside encoding; no figure accumulates across calls.
C23_NoFigureLeftOpen ==
    ch_pc = "done" => ch_open = 0

=============================================================================
